---- MODULE Spec2Model ----
(***************************************************************************)
(* Draughts on simulated robots.  The world is run by one of two           *)
(* supervisors:                                                            *)
(*   - supervisor_controller.py (CheckersGame), which commands one         *)
(*     CheckerRobotDriver per piece over an emitter/receiver channel;      *)
(*   - damas_controller.py (DamasController/TableroDamas), which disables  *)
(*     the piece controllers and teleports the pieces itself.              *)
(* Cells are written <<x, y>> (column, row) for CheckersGame, as in the    *)
(* source, and <<fila, col>> (row, column) for TableroDamas.               *)
(***************************************************************************)
EXTENDS Integers, Sequences, FiniteSets, TLC

(***************************************************************************)
(* Bounds of the model.                                                    *)
(***************************************************************************)
\* committed moves explored per game
MaxMoves == 3

(***************************************************************************)
(* Program constants.                                                      *)
(***************************************************************************)
\* side of the board: range(8)
BoardSize == 8
\* promotion row of WHITE / jugador 1
LastRow == 7
\* grid_to_world, in units of 0.0001 m: -0.7 + g * 0.2
WorldOrigin == -7000
CellSize == 2000

\* CheckerRobotDriver.__init__: distances in units of 0.0001 m, angles in
\* units of 0.0001 rad, wheel velocities in units of 0.0001 rad/s
TOLERANCE_DIST == 600
TOLERANCE_ANGLE == 400
\* KP_ROT = 1.5 and KP_MOVE = 3.0, in tenths
KP_ROT == 15
KP_MOVE == 30
MAX_SPEED_CRUISE == 60000
APPROACH_SPEED == 5000

None == "None"
NoneGrid == <<>>

white_names == {"W_01", "W_02", "W_03", "W_04", "W_05", "W_06",
                "W_07", "W_08", "W_09", "W_10", "W_11", "W_12"}
black_names == {"B_01", "B_02", "B_03", "B_04", "B_05", "B_06",
                "B_07", "B_08", "B_09", "B_10", "B_11", "B_12"}

Coords == 0..(BoardSize - 1)
directions == {<<-1, -1>>, <<-1, 1>>, <<1, -1>>, <<1, 1>>}

Abs(n) == IF n < 0 THEN -n ELSE n

\* 'WHITE' if name.startswith('W') else 'BLACK'
TeamOfName(name) == IF name \in white_names THEN "WHITE" ELSE "BLACK"

grid_to_world(grid_x, grid_y) ==
    <<WorldOrigin + grid_x * CellSize, WorldOrigin + grid_y * CellSize>>

\* int(round((world + 0.7) / 0.2)) on a coordinate in units of 0.0001 m;
\* round() takes an exact half to the even neighbour
round_to_cell(w) ==
    LET n == w - WorldOrigin
        q == n \div CellSize
        r == n % CellSize
    IN IF 2 * r < CellSize THEN q
       ELSE IF 2 * r > CellSize THEN q + 1
       ELSE IF q % 2 = 0 THEN q ELSE q + 1

world_to_grid(world_x, world_y) ==
    <<round_to_cell(world_x), round_to_cell(world_y)>>

(***************************************************************************)
(* Worlds the controllers are started in: the pieces present in the world  *)
(* and the cell <<x, y>> each one stands on.                               *)
(***************************************************************************)
WorldCombo ==
    [n \in {"W_01", "W_02", "B_01", "B_02", "B_03"} |->
        CASE n = "W_01" -> <<2, 2>>
          [] n = "W_02" -> <<0, 6>>
          [] n = "B_01" -> <<3, 3>>
          [] n = "B_02" -> <<5, 5>>
          [] n = "B_03" -> <<7, 7>>]

WorldCrown ==
    [n \in {"W_01", "B_01", "B_02", "B_03"} |->
        CASE n = "W_01" -> <<3, 5>>
          [] n = "B_01" -> <<4, 6>>
          [] n = "B_02" -> <<6, 6>>
          [] n = "B_03" -> <<1, 1>>]

WorldKing ==
    [n \in {"W_01", "W_02", "B_01", "B_02"} |->
        CASE n = "W_01" -> <<2, 6>>
          [] n = "W_02" -> <<0, 0>>
          [] n = "B_01" -> <<5, 5>>
          [] n = "B_02" -> <<4, 4>>]

\* two WHITE men one step from the last row, a BLACK man that cannot move
WorldBlocked ==
    [n \in {"W_01", "W_02", "B_01"} |->
        CASE n = "W_01" -> <<4, 6>>
          [] n = "W_02" -> <<6, 6>>
          [] n = "B_01" -> <<2, 0>>]

\* the last BLACK piece stands where WHITE can take it
WorldLast ==
    [n \in {"W_01", "B_01"} |->
        CASE n = "W_01" -> <<1, 1>>
          [] n = "B_01" -> <<2, 2>>]

\* the last WHITE piece has one step to make, into the reach of BLACK
WorldLost ==
    [n \in {"W_01", "B_01"} |->
        CASE n = "W_01" -> <<0, 4>>
          [] n = "B_01" -> <<2, 6>>]

Worlds == {WorldCombo, WorldCrown, WorldKing, WorldBlocked, WorldLast,
           WorldLost}

VARIABLES
    controller,          \* which supervisor program runs the world
    world,               \* the world the program was started in
    moves,               \* committed moves so far
    \* ---- CheckersGame ----
    board,               \* board[y][x]: name of the robot or None
    robots,              \* name -> [team, is_king, alive]
    current_team,
    selected_piece,
    selected_grid,
    waiting_for_robot,
    moving_robot_name,
    moving_robot_target,
    forced_piece,
    fault,               \* exception that ended CheckersGame.run, or None
    last_captured,       \* captured_piece of the last execute_move (history)
    supervisor_queue,    \* receiver queue of the supervisor
    \* ---- CheckerRobotDriver, one per piece ----
    state,               \* name -> IDLE | ROTATING | MOVING
    target,              \* name -> <<target_x, target_y>>
    locked,              \* name -> upper connector locked
    robot_queue,         \* name -> receiver queue of the robot
    left_velocity,       \* name -> velocity set on left_motor
    right_velocity,      \* name -> velocity set on right_motor
    sensed,              \* name -> <<dist, error_angle>> read in the last step
    \* ---- TableroDamas ----
    estado_tablero,      \* <<fila, col>> -> [jugador, es_reina, nombre] or NoPieza
    turno_actual,
    pieza_seleccionada,
    movimientos_validos,
    jugando_captura,
    numero_turno,
    piezas_capturadas_j1,
    piezas_capturadas_j2,
    retorno              \* what the last direct call of realizar_movimiento returned

gameVars == <<board, robots, current_team, selected_piece, selected_grid,
              waiting_for_robot, moving_robot_name, moving_robot_target,
              forced_piece, fault, last_captured, supervisor_queue>>
driverVars == <<state, target, locked, robot_queue, left_velocity,
                right_velocity, sensed>>
damasVars == <<estado_tablero, turno_actual, pieza_seleccionada,
               movimientos_validos, jugando_captura, numero_turno,
               piezas_capturadas_j1, piezas_capturadas_j2, retorno>>
vars == <<controller, world, moves, gameVars, driverVars, damasVars>>

Names == DOMAIN world

(***************************************************************************)
(* CheckersGame: rules                                                     *)
(***************************************************************************)

\* the flying-king loop without the test for a second piece in the path
RECURSIVE KingScan_first_victim(_, _, _, _, _, _, _, _, _)
KingScan_first_victim(b, rb, team, ox, oy, direction_x, direction_y, i, acc) ==
    LET steps == acc[1]
        victim == acc[2]
    IN IF i >= steps
       THEN <<TRUE, victim>>
       ELSE LET found_piece == b[oy + i * direction_y][ox + i * direction_x]
            IN IF found_piece # None /\ victim = None
               THEN IF rb[found_piece].team # team
                    THEN KingScan_first_victim(b, rb, team, ox, oy,
                            direction_x, direction_y, i + 1,
                            <<steps, found_piece>>)
                    ELSE <<FALSE, None>>
               ELSE KingScan_first_victim(b, rb, team, ox, oy, direction_x,
                                          direction_y, i + 1, acc)

\* The flying-king loop of validate_move: scans the cells strictly between
\* origin and destination; result <<valid, victim>>.
RECURSIVE KingScan(_, _, _, _, _, _, _, _, _)
KingScan(b, rb, team, ox, oy, direction_x, direction_y, i, acc) ==
    LET steps == acc[1]
        victim == acc[2]
    IN IF i >= steps
       THEN <<TRUE, victim>>
       ELSE LET found_piece == b[oy + i * direction_y][ox + i * direction_x]
            IN IF found_piece # None
               THEN IF victim = None
                    THEN IF rb[found_piece].team # team
                         THEN KingScan(b, rb, team, ox, oy, direction_x,
                                       direction_y, i + 1, <<steps, found_piece>>)
                         ELSE <<FALSE, None>>
                    ELSE <<FALSE, None>>
               ELSE KingScan(b, rb, team, ox, oy, direction_x,
                             direction_y, i + 1, acc)

\* validate_move raises: unpacking a None origin (TypeError) or looking up
\* robots[None] when the origin cell is empty (KeyError).
validate_move_raises(b, origin, destination) ==
    IF origin = NoneGrid
    THEN "TypeError"
    ELSE IF b[destination[2]][destination[1]] = None
            /\ b[origin[2]][origin[1]] = None
         THEN "KeyError"
         ELSE None

\* validate_move without the two tests of forced_piece
validate_move_unforced(b, rb, fp, origin, destination) ==
    LET ox == origin[1]
        oy == origin[2]
        dx == destination[1]
        dy == destination[2]
    IN IF b[dy][dx] # None
       THEN <<FALSE, None>>
       ELSE
        LET piece_name == b[oy][ox]
            team == rb[piece_name].team
            is_king == rb[piece_name].is_king
            diff_x == dx - ox
            diff_y == dy - oy
            direction_x == IF diff_x > 0 THEN 1 ELSE -1
            direction_y == IF diff_y > 0 THEN 1 ELSE -1
        IN IF Abs(diff_x) # Abs(diff_y)
           THEN <<FALSE, None>>
           ELSE IF ~is_king
           THEN IF Abs(diff_x) = 1
                THEN IF FALSE
                     THEN <<FALSE, None>>
                     ELSE IF team = "WHITE" /\ diff_y < 0
                     THEN <<FALSE, None>>
                     ELSE IF team = "BLACK" /\ diff_y > 0
                     THEN <<FALSE, None>>
                     ELSE <<TRUE, None>>
                ELSE IF Abs(diff_x) = 2
                THEN LET victim == b[oy + direction_y][ox + direction_x]
                     IN IF victim # None /\ rb[victim].team # team
                        THEN <<TRUE, victim>>
                        ELSE <<FALSE, None>>
                ELSE <<FALSE, None>>
           ELSE LET scan == KingScan(b, rb, team, ox, oy, direction_x,
                                     direction_y, 1, <<Abs(diff_x), None>>)
                IN IF ~scan[1]
                   THEN <<FALSE, None>>
                   ELSE IF scan[2] # None
                   THEN <<TRUE, scan[2]>>
                   ELSE IF FALSE
                   THEN <<FALSE, None>>
                   ELSE <<TRUE, None>>

\* validate_move(origin, destination) -> <<is_valid, captured_piece>>
validate_move(b, rb, fp, origin, destination) ==
    LET ox == origin[1]
        oy == origin[2]
        dx == destination[1]
        dy == destination[2]
    IN IF b[dy][dx] # None
       THEN <<FALSE, None>>
       ELSE
        LET piece_name == b[oy][ox]
            team == rb[piece_name].team
            is_king == rb[piece_name].is_king
            diff_x == dx - ox
            diff_y == dy - oy
            direction_x == IF diff_x > 0 THEN 1 ELSE -1
            direction_y == IF diff_y > 0 THEN 1 ELSE -1
        IN IF Abs(diff_x) # Abs(diff_y)
           THEN <<FALSE, None>>
           ELSE IF ~is_king
           THEN IF Abs(diff_x) = 1
                THEN IF fp # None
                     THEN <<FALSE, None>>
                     ELSE IF team = "WHITE" /\ diff_y < 0
                     THEN <<FALSE, None>>
                     ELSE IF team = "BLACK" /\ diff_y > 0
                     THEN <<FALSE, None>>
                     ELSE <<TRUE, None>>
                ELSE IF Abs(diff_x) = 2
                THEN LET victim == b[oy + direction_y][ox + direction_x]
                     IN IF victim # None /\ rb[victim].team # team
                        THEN <<TRUE, victim>>
                        ELSE <<FALSE, None>>
                ELSE <<FALSE, None>>
           ELSE LET scan == KingScan(b, rb, team, ox, oy, direction_x,
                                     direction_y, 1, <<Abs(diff_x), None>>)
                IN IF ~scan[1]
                   THEN <<FALSE, None>>
                   ELSE IF scan[2] # None
                   THEN <<TRUE, scan[2]>>
                   ELSE IF fp # None
                   THEN <<FALSE, None>>
                   ELSE <<TRUE, None>>

InRange(x, y) == x \in Coords /\ y \in Coords

\* list indexing: an index -8..-1 counts from the end of the list (an index
\* of 8 or more raises IndexError)
py_index(i) == i % BoardSize

\* the cell board[y][x] denotes
py_cell(c) == <<py_index(c[1]), py_index(c[2])>>

\* the board as board[y][x] reads it for indices -8..7
py_board(b) ==
    [y \in (-BoardSize)..LastRow |-> [x \in (-BoardSize)..LastRow |->
        b[py_index(y)][py_index(x)]]]

\* can_capture_more(piece_name, current_x, current_y)
can_capture_more(b, rb, fp, piece_name, current_x, current_y) ==
    IF ~rb[piece_name].is_king
    THEN \E d \in directions :
            LET dest_x == current_x + d[1] * 2
                dest_y == current_y + d[2] * 2
            IN /\ InRange(dest_x, dest_y)
               /\ validate_move(b, rb, fp, <<current_x, current_y>>,
                                <<dest_x, dest_y>>)[1]
    ELSE \E d \in directions : \E dist \in 2..(BoardSize - 1) :
            LET dest_x == current_x + d[1] * dist
                dest_y == current_y + d[2] * dist
                res == validate_move(b, rb, fp, <<current_x, current_y>>,
                                     <<dest_x, dest_y>>)
            IN /\ InRange(dest_x, dest_y)
               /\ res[1]
               /\ res[2] # None

(***************************************************************************)
(* CheckersGame: construction                                              *)
(***************************************************************************)

\* init_robots: one record per robot found in the world
init_robots(w) ==
    [name \in DOMAIN w |->
        [team |-> TeamOfName(name), is_king |-> FALSE, alive |-> TRUE]]

\* translation field of a robot standing on the centre of its cell
translation(w, name) == grid_to_world(w[name][1], w[name][2])

\* init_board: every alive robot is written at the cell its position maps to
init_board(w) ==
    LET grid(name) == world_to_grid(translation(w, name)[1],
                                    translation(w, name)[2])
    IN [y \in Coords |-> [x \in Coords |->
          IF \E name \in DOMAIN w : grid(name) = <<x, y>>
          THEN CHOOSE name \in DOMAIN w : grid(name) = <<x, y>>
          ELSE None]]

(***************************************************************************)
(* CheckersGame: events                                                    *)
(***************************************************************************)

\* the cell handle_robot_click's double loop leaves in selected_grid
FindOnBoard(b, robot_name, old_grid) ==
    LET matches == {c \in Coords \X Coords : b[c[2]][c[1]] = robot_name}
    IN IF matches = {}
       THEN old_grid
       ELSE LET last_y == CHOOSE y \in Coords :
                            /\ \E c \in matches : c[2] = y
                            /\ \A c \in matches : c[2] <= y
                first_x == CHOOSE x \in Coords :
                            /\ <<x, last_y>> \in matches
                            /\ \A c \in matches : c[2] = last_y => x <= c[1]
            IN <<first_x, last_y>>

\* handle_robot_click without the forced_piece check
SelectionAccepted_any_piece(robot_name) ==
    /\ ~waiting_for_robot
    /\ robots[robot_name].team = current_team
    /\ robots[robot_name].alive

\* handle_robot_click without the check of the team
SelectionAccepted_any_team(robot_name) ==
    /\ ~waiting_for_robot
    /\ ~(forced_piece # None /\ robot_name # forced_piece)
    /\ robots[robot_name].alive

\* handle_robot_click without the waiting_for_robot check
SelectionAccepted_while_waiting(robot_name) ==
    /\ ~(forced_piece # None /\ robot_name # forced_piece)
    /\ robots[robot_name].team = current_team
    /\ robots[robot_name].alive

\* handle_robot_click without the alive check
SelectionAccepted_dead(robot_name) ==
    /\ ~waiting_for_robot
    /\ ~(forced_piece # None /\ robot_name # forced_piece)
    /\ robots[robot_name].team = current_team

\* the checks of handle_robot_click that let a selection through
SelectionAccepted(robot_name) ==
    /\ ~waiting_for_robot
    /\ ~(forced_piece # None /\ robot_name # forced_piece)
    /\ robots[robot_name].team = current_team
    /\ robots[robot_name].alive

\* check_user_selection -> handle_robot_click(robot_name)
HandleRobotClick(robot_name) ==
    /\ controller = "supervisor_controller"
    /\ fault = None
    /\ robot_name \in DOMAIN robots
    /\ IF SelectionAccepted(robot_name)
       THEN /\ selected_piece' = robot_name
            /\ selected_grid' = FindOnBoard(board, robot_name, selected_grid)
       ELSE UNCHANGED <<selected_piece, selected_grid>>
    /\ UNCHANGED <<board, robots, current_team, waiting_for_robot,
                   moving_robot_name, moving_robot_target, forced_piece,
                   fault, last_captured, supervisor_queue>>
    /\ UNCHANGED <<controller, world, moves, driverVars, damasVars>>

\* capture_piece: the robot is marked dead and wiped from the board
capture_robots(rb, piece_name) ==
    [rb EXCEPT ![piece_name].alive = FALSE]

\* capture_piece that leaves the captured robot on the board
capture_board_keep(b, piece_name) == b

capture_board(b, piece_name) ==
    [y \in Coords |-> [x \in Coords |->
        IF b[y][x] = piece_name THEN None ELSE b[y][x]]]

\* board after execute_move
execute_move_board(b, origin, destination, captured_piece) ==
    LET piece == b[origin[2]][origin[1]]
        b1 == IF captured_piece # None
              THEN capture_board(b, captured_piece) ELSE b
        b2 == [b1 EXCEPT ![destination[2]][destination[1]] = piece]
    IN [b2 EXCEPT ![origin[2]][origin[1]] = None]

\* the promotion test with the rows of the two teams exchanged
reaches_back_rank_swapped(rb, piece, ty) ==
    /\ ~rb[piece].is_king
    /\ \/ rb[piece].team = "WHITE" /\ ty = 0
       \/ rb[piece].team = "BLACK" /\ ty = LastRow

\* the promotion test without the row: any man that arrives is crowned
reaches_back_rank_any_row(rb, piece, ty) == ~rb[piece].is_king

\* will_promote of execute_move; the same test guards promote_king on arrival
reaches_back_rank(rb, piece, ty) ==
    /\ ~rb[piece].is_king
    /\ \/ rb[piece].team = "WHITE" /\ ty = LastRow
       \/ rb[piece].team = "BLACK" /\ ty = 0

\* execute_move sending the world coordinates in the wrong order
MoveMsg_swapped(piece, destination) ==
    LET w == grid_to_world(destination[1], destination[2])
    IN <<piece, "MOVE", w[2], w[1]>>

\* the message execute_move emits, as msg.split() sees it
MoveMsg(piece, destination) ==
    LET w == grid_to_world(destination[1], destination[2])
    IN <<piece, "MOVE", w[1], w[2]>>

\* emitter.send: every robot's receiver gets the packet
Broadcast(queues, msg) ==
    [name \in DOMAIN queues |-> Append(queues[name], msg)]

\* execute_move that never detects a combo
execute_move_forced_never(b2, rb1, fp, piece, destination, captured_piece) ==
    None

\* execute_move without the will_promote test
execute_move_forced_promoting(b2, rb1, fp, piece, destination, captured_piece) ==
    IF /\ captured_piece # None
       /\ can_capture_more(b2, rb1, fp, piece, destination[1], destination[2])
    THEN piece
    ELSE None

\* forced_piece after execute_move
execute_move_forced(b2, rb1, fp, piece, destination, captured_piece) ==
    IF /\ captured_piece # None
       /\ ~reaches_back_rank(rb1, piece, destination[2])
       /\ can_capture_more(b2, rb1, fp, piece, destination[1], destination[2])
    THEN piece
    ELSE None

execute_move(origin, destination, captured_piece) ==
    LET piece == board[origin[2]][origin[1]]
        rb1 == IF captured_piece # None
               THEN capture_robots(robots, captured_piece) ELSE robots
        b2 == execute_move_board(board, origin, py_cell(destination),
                                 captured_piece)
    IN /\ robots' = rb1
       /\ board' = b2
       /\ robot_queue' = Broadcast(robot_queue, MoveMsg(piece, destination))
       /\ waiting_for_robot' = TRUE
       /\ moving_robot_name' = piece
       /\ moving_robot_target' = destination
       /\ forced_piece' = execute_move_forced(py_board(b2), rb1, forced_piece,
                                              piece, destination,
                                              captured_piece)
       /\ selected_piece' = None
       /\ last_captured' = captured_piece
       /\ moves' = moves + 1
       /\ UNCHANGED <<current_team, selected_grid, fault, supervisor_queue,
                      state, target, locked, left_velocity,
                      right_velocity, sensed>>

\* handle_tile_click clearing the selection on every rejected destination
selected_after_reject_clear(fp, sp) == None

\* handle_tile_click, rejected destination: if not self.forced_piece:
\* self.selected_piece = None
selected_after_reject(fp, sp) == IF fp = None THEN None ELSE sp

\* check_user_selection -> handle_tile_click(x, y)
HandleTileClick(x, y) ==
    /\ controller = "supervisor_controller"
    /\ fault = None
    /\ IF waiting_for_robot \/ selected_piece = None
       THEN UNCHANGED <<gameVars, driverVars, moves>>
       ELSE LET raised == validate_move_raises(board, selected_grid, <<x, y>>)
            IN IF raised # None
               THEN /\ fault' = raised
                    /\ UNCHANGED <<board, robots, current_team, selected_piece,
                                   selected_grid, waiting_for_robot,
                                   moving_robot_name, moving_robot_target,
                                   forced_piece, last_captured,
                                   supervisor_queue, driverVars, moves>>
               ELSE LET res == validate_move(board, robots, forced_piece,
                                             selected_grid, <<x, y>>)
                    IN IF res[1]
                       THEN /\ moves < MaxMoves
                            /\ execute_move(selected_grid, <<x, y>>, res[2])
                       ELSE /\ selected_piece' =
                                 selected_after_reject(forced_piece,
                                                       selected_piece)
                            /\ UNCHANGED <<board, robots, current_team,
                                           selected_grid, waiting_for_robot,
                                           moving_robot_name,
                                           moving_robot_target, forced_piece,
                                           fault, last_captured,
                                           supervisor_queue,
                                           driverVars, moves>>
    /\ UNCHANGED <<controller, world, damasVars>>

\* the coordinates a tile event may carry: int(parts[1]), int(parts[2]) of
\* a node named TILE_x_y
TileCoords == -1..BoardSize

\* check_user_selection -> handle_tile_click(x, y) for a tile outside the
\* 8x8 grid
HandleTileOutside(x, y) ==
    /\ controller = "supervisor_controller"
    /\ fault = None
    /\ ~InRange(x, y)
    /\ IF waiting_for_robot \/ selected_piece = None
       THEN UNCHANGED <<gameVars, driverVars, moves>>
       ELSE LET raised == IF selected_grid = NoneGrid THEN "TypeError"
                          ELSE IF x > LastRow \/ y > LastRow
                          THEN "IndexError"
                          ELSE validate_move_raises(py_board(board),
                                                    selected_grid, <<x, y>>)
            IN IF raised # None
               THEN /\ fault' = raised
                    /\ UNCHANGED <<board, robots, current_team, selected_piece,
                                   selected_grid, waiting_for_robot,
                                   moving_robot_name, moving_robot_target,
                                   forced_piece, last_captured,
                                   supervisor_queue, driverVars, moves>>
               ELSE LET res == validate_move(py_board(board), robots,
                                             forced_piece, selected_grid,
                                             <<x, y>>)
                    IN IF res[1]
                       THEN /\ moves < MaxMoves
                            /\ execute_move(selected_grid, <<x, y>>, res[2])
                       ELSE /\ selected_piece' =
                                 selected_after_reject(forced_piece,
                                                       selected_piece)
                            /\ UNCHANGED <<board, robots, current_team,
                                           selected_grid, waiting_for_robot,
                                           moving_robot_name,
                                           moving_robot_target, forced_piece,
                                           fault, last_captured,
                                           supervisor_queue,
                                           driverVars, moves>>
    /\ UNCHANGED <<controller, world, damasVars>>

\* switch_turn that leaves the turn where it is
switch_turn_stay(team) == team

\* switch_turn
switch_turn(team) == IF team = "WHITE" THEN "BLACK" ELSE "WHITE"

\* process_robot_messages finalizing the pending move on the ARRIVED of any
\* robot
ProcessOneMessage_any_sender(g, parts) ==
    LET sender == g.moving_robot_name
        command == parts[2]
    IN IF command = "ARRIVED" /\ g.moving_robot_name # None
       THEN LET ty == g.moving_robot_target[2]
                promote == reaches_back_rank(g.robots, sender, ty)
                g1 == IF promote
                      THEN [g EXCEPT !.robots[sender].is_king = TRUE,
                                     !.sent = Append(g.sent, <<sender, "LOCK">>)]
                      ELSE g
            IN IF g1.forced_piece # None
               THEN [g1 EXCEPT !.waiting_for_robot = FALSE,
                               !.selected_piece = g1.forced_piece]
               ELSE [g1 EXCEPT !.moving_robot_name = None,
                               !.moving_robot_target = NoneGrid,
                               !.waiting_for_robot = FALSE,
                               !.current_team = switch_turn(g1.current_team)]
       ELSE g

\* one iteration of the while loop of process_robot_messages on the game
\* state g; g.sent collects the LOCK messages promote_king emits
ProcessOneMessage(g, parts) ==
    LET sender == parts[1]
        command == parts[2]
    IN IF command = "ARRIVED" /\ sender = g.moving_robot_name
       THEN LET ty == g.moving_robot_target[2]
                promote == reaches_back_rank(g.robots, sender, ty)
                g1 == IF promote
                      THEN [g EXCEPT !.robots[sender].is_king = TRUE,
                                     !.sent = Append(g.sent, <<sender, "LOCK">>)]
                      ELSE g
            IN IF g1.forced_piece # None
               THEN [g1 EXCEPT !.waiting_for_robot = FALSE,
                               !.selected_piece = g1.forced_piece]
               ELSE [g1 EXCEPT !.moving_robot_name = None,
                               !.moving_robot_target = NoneGrid,
                               !.waiting_for_robot = FALSE,
                               !.current_team = switch_turn(g1.current_team)]
       ELSE g

RECURSIVE ProcessQueue(_, _)
ProcessQueue(g, q) ==
    IF q = <<>> THEN g
    ELSE ProcessQueue(ProcessOneMessage(g, Head(q)), Tail(q))

RECURSIVE BroadcastAll(_, _)
BroadcastAll(queues, msgs) ==
    IF msgs = <<>> THEN queues
    ELSE BroadcastAll(Broadcast(queues, Head(msgs)), Tail(msgs))

\* run: if waiting_for_robot: process_robot_messages()
ProcessRobotMessages ==
    /\ controller = "supervisor_controller"
    /\ fault = None
    /\ waiting_for_robot
    /\ supervisor_queue # <<>>
    /\ LET g0 == [robots |-> robots, current_team |-> current_team,
                  selected_piece |-> selected_piece,
                  waiting_for_robot |-> waiting_for_robot,
                  moving_robot_name |-> moving_robot_name,
                  moving_robot_target |-> moving_robot_target,
                  forced_piece |-> forced_piece, sent |-> <<>>]
           g == ProcessQueue(g0, supervisor_queue)
       IN /\ robots' = g.robots
          /\ current_team' = g.current_team
          /\ selected_piece' = g.selected_piece
          /\ waiting_for_robot' = g.waiting_for_robot
          /\ moving_robot_name' = g.moving_robot_name
          /\ moving_robot_target' = g.moving_robot_target
          /\ robot_queue' = BroadcastAll(robot_queue, g.sent)
    /\ supervisor_queue' = <<>>
    /\ UNCHANGED <<board, selected_grid, forced_piece, fault, last_captured,
                   state, target, locked, left_velocity, right_velocity,
                   sensed>>
    /\ UNCHANGED <<controller, world, moves, damasVars>>

(***************************************************************************)
(* CheckerRobotDriver                                                      *)
(***************************************************************************)

\* msg.startswith(self.name); every name has the same length
addressed_to(parts, name) == Len(parts) >= 1 /\ parts[1] = name

\* a driver that stores the target of a MOVE and stays in its phase
driver_message_keeps_phase(d, name, parts) ==
    IF ~addressed_to(parts, name)
    THEN d
    ELSE IF parts[2] = "MOVE" \/ parts[2] = "DIE"
    THEN [d EXCEPT !.target = <<parts[3], parts[4]>>]
    ELSE IF parts[2] = "LOCK"
    THEN [d EXCEPT !.locked = TRUE]
    ELSE d

\* one iteration of the while loop of process_messages on the driver
\* state d = [state, target, locked] of robot name
driver_message(d, name, parts) ==
    IF ~addressed_to(parts, name)
    THEN d
    ELSE LET cmd == parts[2]
         IN IF cmd = "MOVE" \/ cmd = "DIE"
            THEN [d EXCEPT !.target = <<parts[3], parts[4]>>,
                           !.state = "ROTATING"]
            ELSE IF cmd = "LOCK"
            THEN [d EXCEPT !.locked = TRUE]
            ELSE d

RECURSIVE process_messages(_, _, _)
process_messages(d, name, q) ==
    IF q = <<>> THEN d
    ELSE process_messages(driver_message(d, name, Head(q)), name, Tail(q))

\* a driver that stays MOVING after it has reported its arrival
driver_state_step_keeps_moving(d, in_tolerance) ==
    IF d.state = "ROTATING" /\ in_tolerance
    THEN [d EXCEPT !.state = "MOVING"]
    ELSE d

\* the state branch of one iteration of CheckerRobotDriver.run; in_tolerance
\* is the outcome of the sensor test of the branch taken:
\* abs(error_angle) < TOLERANCE_ANGLE in ROTATING, dist < TOLERANCE_DIST in
\* MOVING
driver_state_step(d, in_tolerance) ==
    IF d.state = "ROTATING"
    THEN IF in_tolerance THEN [d EXCEPT !.state = "MOVING"] ELSE d
    ELSE IF d.state = "MOVING"
    THEN IF in_tolerance THEN [d EXCEPT !.state = "IDLE"] ELSE d
    ELSE d

\* a driver that reaches its target without sending ARRIVED
driver_arrives_silent(d, in_tolerance) == FALSE

\* a driver that also reports ARRIVED when it finishes rotating
driver_arrives_early(d, in_tolerance) == d.state # "IDLE" /\ in_tolerance

\* emitter.send("<name> ARRIVED") in the MOVING branch
driver_arrives(d, in_tolerance) == d.state = "MOVING" /\ in_tolerance

\* clamp without the floor at min_val
clamp_no_floor(value, min_val, max_val) ==
    IF Abs(value) < 100
    THEN 0
    ELSE IF Abs(value) > max_val
    THEN IF value > 0 THEN max_val ELSE -max_val
    ELSE value

\* clamp(value, min_val, max_val)
clamp(value, min_val, max_val) ==
    IF Abs(value) < 100
    THEN 0
    ELSE LET sign == IF value > 0 THEN 1 ELSE -1
             mag == Abs(value)
             mag1 == IF mag > max_val THEN max_val ELSE mag
             mag2 == IF mag1 < min_val THEN min_val ELSE mag1
         IN mag2 * sign

\* rot_speed of the ROTATING branch
rot_speed(error_angle) == clamp((error_angle * KP_ROT) \div 10, 1000, 20000)

\* the braking ramp without the floor at APPROACH_SPEED
base_speed_no_floor(dist) ==
    IF dist > 4000
    THEN MAX_SPEED_CRUISE
    ELSE IF dist * 5 < 20000 THEN dist * 5 ELSE 20000

\* base_speed of the MOVING branch
base_speed(dist) ==
    IF dist > 4000
    THEN MAX_SPEED_CRUISE
    ELSE LET ramp == IF APPROACH_SPEED > dist * 5 THEN APPROACH_SPEED
                                                 ELSE dist * 5
         IN IF ramp < 20000 THEN ramp ELSE 20000

\* correction of the MOVING branch for the heading error used
correction(error_angle) == (error_angle * KP_MOVE) \div 10

\* a MOVING branch that reads the heading error at every distance
driver_reads_always(d, s) ==
    IF d.state = "ROTATING"
    THEN <<0, s[2]>>
    ELSE IF d.state = "MOVING"
    THEN <<s[1], IF s[1] >= TOLERANCE_DIST THEN s[2] ELSE 0>>
    ELSE <<0, 0>>

\* what one iteration of run reads from gps and compass for the branch it
\* takes, given the distance and heading error s = <<dist, error_angle>> the
\* robot is at: ROTATING computes error_angle only, MOVING computes dist and,
\* when it has not arrived and dist >= 0.20, error_angle (0 otherwise)
driver_reads(d, s) ==
    IF d.state = "ROTATING"
    THEN <<0, s[2]>>
    ELSE IF d.state = "MOVING"
    THEN <<s[1], IF s[1] >= TOLERANCE_DIST /\ s[1] >= 2000 THEN s[2] ELSE 0>>
    ELSE <<0, 0>>

\* the test of the branch taken: abs(error_angle) < TOLERANCE_ANGLE in
\* ROTATING, dist < TOLERANCE_DIST in MOVING
driver_in_tolerance(d, r) ==
    IF d.state = "ROTATING" THEN Abs(r[2]) < TOLERANCE_ANGLE
    ELSE IF d.state = "MOVING" THEN r[1] < TOLERANCE_DIST
    ELSE FALSE

\* a MOVING branch that sets the wheel speeds before it tests the distance
driver_velocity_speed_first(d, r) ==
    IF d.state = "ROTATING"
    THEN IF driver_in_tolerance(d, r)
         THEN <<0, 0>>
         ELSE <<-rot_speed(r[2]), rot_speed(r[2])>>
    ELSE IF d.state = "MOVING"
    THEN <<base_speed(r[1]) - correction(r[2]),
           base_speed(r[1]) + correction(r[2])>>
    ELSE <<0, 0>>

\* <<left, right>>: the setVelocity calls of the branch taken
driver_velocity(d, r) ==
    IF d.state = "ROTATING"
    THEN IF driver_in_tolerance(d, r)
         THEN <<0, 0>>
         ELSE <<-rot_speed(r[2]), rot_speed(r[2])>>
    ELSE IF d.state = "MOVING"
    THEN IF driver_in_tolerance(d, r)
         THEN <<0, 0>>
         ELSE <<base_speed(r[1]) - correction(r[2]),
                base_speed(r[1]) + correction(r[2])>>
    ELSE <<0, 0>>

\* distances and heading errors a robot under way may be at when it samples
\* its sensors
DistSamples == {300, 3000}
AngleSamples == {0, 5000}

\* the state branches of one iteration of run for every driver; after[name]
\* is the driver state process_messages left, crashed the drivers whose
\* process_messages raised (their loop has ended), arrived_msg[name] the
\* packet emitter.send hands to the supervisor's receiver, samples the
\* <<dist, error_angle>> pairs a robot may be at
DriversRun(after, crashed, arrived_msg, samples) ==
    LET active == {name \in Names \ crashed : after[name].state # "IDLE"}
    IN \E sample \in [active -> samples] :
         LET reading == [name \in Names |->
                           IF name \in active
                           THEN driver_reads(after[name], sample[name])
                           ELSE IF name \in crashed THEN sensed[name]
                           ELSE <<0, 0>>]
             in_tol(name) == driver_in_tolerance(after[name], reading[name])
             final == [name \in Names |->
                         IF name \in crashed THEN after[name]
                         ELSE driver_state_step(after[name], in_tol(name))]
             arrived == {name \in Names \ crashed :
                           driver_arrives(after[name], in_tol(name))}
         IN /\ state' = [name \in Names |-> final[name].state]
            /\ target' = [name \in Names |-> final[name].target]
            /\ locked' = [name \in Names |-> final[name].locked]
            /\ sensed' = reading
            /\ left_velocity' = [name \in Names |->
                  IF name \in crashed THEN left_velocity[name]
                  ELSE driver_velocity(after[name], reading[name])[1]]
            /\ right_velocity' = [name \in Names |->
                  IF name \in crashed THEN right_velocity[name]
                  ELSE driver_velocity(after[name], reading[name])[2]]
            /\ \E order \in [1..Cardinality(arrived) -> arrived] :
                 /\ \A i, j \in DOMAIN order : order[i] = order[j] => i = j
                 /\ supervisor_queue' = supervisor_queue \o
                       [i \in DOMAIN order |-> arrived_msg[order[i]]]

\* "<name> ARRIVED" as msg.split() of the supervisor sees it
ArrivedMsg(name) == <<name, "ARRIVED">>

\* one simulation step: every CheckerRobotDriver runs one iteration of run
RobotsStep ==
    /\ controller = "supervisor_controller"
    /\ DriversRun([name \in Names |->
                      process_messages([state |-> state[name],
                                        target |-> target[name],
                                        locked |-> locked[name]],
                                       name, robot_queue[name])],
                  {}, [name \in Names |-> ArrivedMsg(name)],
                  DistSamples \X AngleSamples)
    /\ robot_queue' = [name \in Names |-> <<>>]
    /\ UNCHANGED <<board, robots, current_team, selected_piece, selected_grid,
                   waiting_for_robot, moving_robot_name, moving_robot_target,
                   forced_piece, fault, last_captured>>
    /\ UNCHANGED <<controller, world, moves, damasVars>>

\* distances and heading errors on both sides of every threshold of run:
\* TOLERANCE_DIST, the inner radius 0.20 and the outer radius 0.40;
\* TOLERANCE_ANGLE and the values at which clamp floors and caps rot_speed
FineDistSamples == {300, 598, 600, 800, 1500, 2000, 3000, 3998, 4000, 4002,
                    5000}
FineAngleSamples == {-20000, -600, -398, 0, 60, 398, 400, 600, 5000, 20000}

\* one simulation step of every CheckerRobotDriver, the robots sampled at
\* the fine distances and heading errors
RobotsStepFine ==
    /\ controller = "supervisor_controller"
    /\ DriversRun([name \in Names |->
                      process_messages([state |-> state[name],
                                        target |-> target[name],
                                        locked |-> locked[name]],
                                       name, robot_queue[name])],
                  {}, [name \in Names |-> ArrivedMsg(name)],
                  FineDistSamples \X FineAngleSamples)
    /\ robot_queue' = [name \in Names |-> <<>>]
    /\ UNCHANGED <<board, robots, current_team, selected_piece, selected_grid,
                   waiting_for_robot, moving_robot_name, moving_robot_target,
                   forced_piece, fault, last_captured>>
    /\ UNCHANGED <<controller, world, moves, damasVars>>

(***************************************************************************)
(* TableroDamas                                                            *)
(***************************************************************************)

\* a key absent from the dict estado_tablero
NoPieza == [jugador |-> 0, es_reina |-> FALSE, nombre |-> None]

_es_casilla_negra(fila, col) == (fila + col) % 2 = 0

\* _inicializar_piezas: pieces standing on a playable cell of the board
_inicializar_piezas(w) ==
    [pos \in Coords \X Coords |->
        IF /\ _es_casilla_negra(pos[1], pos[2])
           /\ \E name \in DOMAIN w : w[name] = <<pos[2], pos[1]>>
        THEN LET name == CHOOSE n \in DOMAIN w : w[n] = <<pos[2], pos[1]>>
             IN [jugador |-> IF name \in white_names THEN 1 ELSE 2,
                 es_reina |-> FALSE, nombre |-> name]
        ELSE NoPieza]

InTablero(et, pos) ==
    pos[1] \in Coords /\ pos[2] \in Coords /\ et[pos] # NoPieza

\* direcciones of obtener_movimientos_validos, in list order
direcciones(jugador, es_reina) ==
    IF es_reina
    THEN << <<-1, -1>>, <<-1, 1>>, <<1, -1>>, <<1, 1>> >>
    ELSE IF jugador = 1
    THEN << <<1, -1>>, <<1, 1>> >>
    ELSE << <<-1, -1>>, <<-1, 1>> >>

\* the capture appended for direction <<df, dc>>, if any
capturas_en_direccion(et, jugador, fila, col, df, dc) ==
    LET nueva_fila == fila + 2 * df
        nueva_col == col + 2 * dc
        casilla_intermedia == <<fila + df, col + dc>>
        nueva_casilla == <<nueva_fila, nueva_col>>
    IN IF /\ nueva_fila \in Coords /\ nueva_col \in Coords
          /\ _es_casilla_negra(nueva_fila, nueva_col)
          /\ InTablero(et, casilla_intermedia)
          /\ ~InTablero(et, nueva_casilla)
          /\ et[casilla_intermedia].jugador # jugador
       THEN << <<nueva_casilla, TRUE, casilla_intermedia>> >>
       ELSE <<>>

\* simple moves added without asking _hay_capturas_disponibles
simples_en_direccion_ignora(et, fila, col, df, dc, verificar, hay_capturas) ==
    LET nueva_fila == fila + df
        nueva_col == col + dc
    IN IF /\ nueva_fila \in Coords /\ nueva_col \in Coords
          /\ _es_casilla_negra(nueva_fila, nueva_col)
          /\ ~InTablero(et, <<nueva_fila, nueva_col>>)
       THEN << <<(<<nueva_fila, nueva_col>>), FALSE, NoneGrid>> >>
       ELSE <<>>

\* the simple move appended for direction <<df, dc>>, if any; hay_capturas
\* is the value _hay_capturas_disponibles(jugador) would return
simples_en_direccion(et, fila, col, df, dc, verificar, hay_capturas) ==
    LET nueva_fila == fila + df
        nueva_col == col + dc
    IN IF /\ nueva_fila \in Coords /\ nueva_col \in Coords
          /\ _es_casilla_negra(nueva_fila, nueva_col)
          /\ ~InTablero(et, <<nueva_fila, nueva_col>>)
          /\ (verificar => ~hay_capturas)
       THEN << <<(<<nueva_fila, nueva_col>>), FALSE, NoneGrid>> >>
       ELSE <<>>

RECURSIVE movimientos_de(_, _, _, _, _, _, _)
movimientos_de(et, jugador, fila, col, dirs, verificar, hay_capturas) ==
    IF dirs = <<>> THEN <<>>
    ELSE LET d == Head(dirs)
         IN simples_en_direccion(et, fila, col, d[1], d[2], verificar,
                                 hay_capturas)
            \o capturas_en_direccion(et, jugador, fila, col, d[1], d[2])
            \o movimientos_de(et, jugador, fila, col, Tail(dirs), verificar,
                              hay_capturas)

es_captura_mov(m) == m[2]

\* capturas = [m for m in movimientos if m[1]]; if capturas: return capturas
solo_capturas_si_hay(movimientos) ==
    LET capturas == SelectSeq(movimientos, es_captura_mov)
    IN IF capturas # <<>> THEN capturas ELSE movimientos

\* obtener_movimientos_validos(fila, col, verificar_capturas_obligatorias=False)
obtener_sin_verificar(et, turno, fila, col) ==
    IF ~InTablero(et, <<fila, col>>) THEN <<>>
    ELSE IF et[<<fila, col>>].jugador # turno THEN <<>>
    ELSE solo_capturas_si_hay(
            movimientos_de(et, et[<<fila, col>>].jugador, fila, col,
                           direcciones(et[<<fila, col>>].jugador,
                                       et[<<fila, col>>].es_reina),
                           FALSE, FALSE))

\* any(m[1] for m in movimientos)
alguna_captura(movimientos) ==
    \E i \in DOMAIN movimientos : movimientos[i][2]

_hay_capturas_disponibles(et, turno, jugador) ==
    \E pos \in Coords \X Coords :
        /\ et[pos] # NoPieza
        /\ et[pos].jugador = jugador
        /\ alguna_captura(obtener_sin_verificar(et, turno, pos[1], pos[2]))

\* obtener_movimientos_validos without the test of the turn
obtener_de_cualquier_jugador(et, turno, fila, col) ==
    IF ~InTablero(et, <<fila, col>>) THEN <<>>
    ELSE solo_capturas_si_hay(
            movimientos_de(et, et[<<fila, col>>].jugador, fila, col,
                           direcciones(et[<<fila, col>>].jugador,
                                       et[<<fila, col>>].es_reina),
                           TRUE,
                           _hay_capturas_disponibles(et, turno,
                                                     et[<<fila, col>>].jugador)))

\* obtener_movimientos_validos(fila, col)
obtener_movimientos_validos(et, turno, fila, col) ==
    IF ~InTablero(et, <<fila, col>>) THEN <<>>
    ELSE IF et[<<fila, col>>].jugador # turno THEN <<>>
    ELSE solo_capturas_si_hay(
            movimientos_de(et, et[<<fila, col>>].jugador, fila, col,
                           direcciones(et[<<fila, col>>].jugador,
                                       et[<<fila, col>>].es_reina),
                           TRUE,
                           _hay_capturas_disponibles(et, turno,
                                                     et[<<fila, col>>].jugador)))

\* the loop of validar_movimiento: the first move whose destination matches
buscar_destino(movimientos, destino) ==
    IF \E i \in DOMAIN movimientos : movimientos[i][1] = destino
    THEN LET i == CHOOSE k \in DOMAIN movimientos :
                     /\ movimientos[k][1] = destino
                     /\ \A j \in 1..(k - 1) : movimientos[j][1] # destino
         IN <<TRUE, movimientos[i][2], movimientos[i][3]>>
    ELSE <<FALSE, FALSE, NoneGrid>>

\* validar_movimiento(origen, destino) -> <<es_valido, es_captura, capturada>>
validar_movimiento(et, turno, origen, destino) ==
    buscar_destino(obtener_movimientos_validos(et, turno, origen[1], origen[2]),
                   destino)

\* _verificar_promocion(posicion) on the dict et
_verificar_promocion(et, posicion) ==
    IF et[posicion] = NoPieza THEN et
    ELSE IF et[posicion].es_reina THEN et
    ELSE IF \/ et[posicion].jugador = 1 /\ posicion[1] = LastRow
            \/ et[posicion].jugador = 2 /\ posicion[1] = 0
    THEN [et EXCEPT ![posicion].es_reina = TRUE]
    ELSE et

\* the piece is moved from origen to destino
mover_pieza(et, origen, destino) ==
    [et EXCEPT ![origen] = NoPieza, ![destino] = et[origen]]

\* a captured piece is deleted: es_captura, casilla_capturada set and present
hay_pieza_capturada(et1, es_captura, casilla_capturada) ==
    /\ es_captura
    /\ casilla_capturada # NoneGrid
    /\ et1[casilla_capturada] # NoPieza

eliminar_capturada(et1, es_captura, casilla_capturada) ==
    IF hay_pieza_capturada(et1, es_captura, casilla_capturada)
    THEN [et1 EXCEPT ![casilla_capturada] = NoPieza]
    ELSE et1

\* realizar_movimiento writing a fresh, unpromoted record at destino
realizar_tablero_sin_copia(et, origen, destino, es_captura, casilla_capturada) ==
    _verificar_promocion(
        eliminar_capturada(
            [et EXCEPT ![origen] = NoPieza,
                       ![destino] = [et[origen] EXCEPT !.es_reina = FALSE]],
            es_captura, casilla_capturada),
        destino)

\* estado_tablero after the move, the capture and the promotion check of
\* realizar_movimiento
realizar_tablero(et, origen, destino, es_captura, casilla_capturada) ==
    _verificar_promocion(
        eliminar_capturada(mover_pieza(et, origen, destino),
                           es_captura, casilla_capturada),
        destino)

\* cambiar_turno
cambiar_turno ==
    /\ turno_actual' = IF turno_actual = 1 THEN 2 ELSE 1
    /\ numero_turno' = numero_turno + 1
    /\ pieza_seleccionada' = NoneGrid
    /\ movimientos_validos' = <<>>

\* the end of realizar_movimiento: continue the capture or change the turn
continuar_o_cambiar(destino, es_captura, capturas_posibles) ==
    IF es_captura /\ capturas_posibles # <<>>
    THEN /\ jugando_captura' = TRUE
         /\ pieza_seleccionada' = destino
         /\ movimientos_validos' = capturas_posibles
         /\ UNCHANGED <<turno_actual, numero_turno>>
    ELSE /\ jugando_captura' = FALSE
         /\ cambiar_turno

\* the capture counters of realizar_movimiento
contar_capturas(captured, jugador_capturado) ==
    /\ piezas_capturadas_j1' =
          IF captured /\ jugador_capturado = 1
          THEN piezas_capturadas_j1 + 1 ELSE piezas_capturadas_j1
    /\ piezas_capturadas_j2' =
          IF captured /\ jugador_capturado # 1
          THEN piezas_capturadas_j2 + 1 ELSE piezas_capturadas_j2

\* realizar_movimiento once the board after the move is known
realizar_con_tablero(et3, destino, es_captura) ==
    /\ estado_tablero' = et3
    /\ continuar_o_cambiar(destino, es_captura,
          SelectSeq(obtener_movimientos_validos(et3, turno_actual,
                                                destino[1], destino[2]),
                    es_captura_mov))

\* realizar_movimiento once validar_movimiento has answered v
realizar_validado(origen, destino, v) ==
    /\ realizar_con_tablero(
          realizar_tablero(estado_tablero, origen, destino, v[2], v[3]),
          destino, v[2])
    /\ contar_capturas(
          hay_pieza_capturada(mover_pieza(estado_tablero, origen, destino),
                              v[2], v[3]),
          IF v[3] # NoneGrid THEN estado_tablero[v[3]].jugador ELSE 0)
    /\ moves' = moves + 1

\* realizar_movimiento(origen, destino) when validar_movimiento accepts
realizar_movimiento(origen, destino) ==
    realizar_validado(origen, destino,
        validar_movimiento(estado_tablero, turno_actual, origen, destino))

\* verificar_fin_juego without the test for a player that cannot move
sin_movimientos_nunca(et, turno, jugador) == FALSE

sin_movimientos(et, turno, jugador) ==
    \A pos \in Coords \X Coords :
        et[pos].jugador = jugador =>
            obtener_movimientos_validos(et, turno, pos[1], pos[2]) = <<>>

sin_piezas(et, jugador) ==
    \A pos \in Coords \X Coords : et[pos].jugador # jugador

\* verificar_fin_juego() -> <<juego_terminado, ganador>>
verificar_fin_juego(et, turno) ==
    IF sin_piezas(et, 1) /\ sin_piezas(et, 2) THEN <<FALSE, 0>>
    ELSE IF sin_piezas(et, 1) THEN <<TRUE, 2>>
    ELSE IF sin_piezas(et, 2) THEN <<TRUE, 1>>
    ELSE IF sin_movimientos(et, turno, turno)
    THEN <<TRUE, IF turno = 1 THEN 2 ELSE 1>>
    ELSE <<FALSE, 0>>

destinos_validos == {movimientos_validos[i][1] : i \in DOMAIN movimientos_validos}

\* DamasController.run: one click on the touch sensor of tile (fila, col)
\* -> procesar_click_tile(fila, col)
ProcesarClickTile(fila, col) ==
    /\ controller = "damas_controller"
    /\ ~verificar_fin_juego(estado_tablero, turno_actual)[1]
    /\ IF ~_es_casilla_negra(fila, col)
       THEN UNCHANGED <<damasVars, moves>>
       ELSE IF pieza_seleccionada # NoneGrid
       THEN IF <<fila, col>> \in destinos_validos
            THEN IF validar_movimiento(estado_tablero, turno_actual,
                                       pieza_seleccionada, <<fila, col>>)[1]
                 THEN /\ moves < MaxMoves
                      /\ realizar_movimiento(pieza_seleccionada, <<fila, col>>)
                 ELSE UNCHANGED <<damasVars, moves>>
            ELSE /\ pieza_seleccionada' = NoneGrid
                 /\ movimientos_validos' = <<>>
                 /\ UNCHANGED <<estado_tablero, turno_actual, jugando_captura,
                                numero_turno, piezas_capturadas_j1,
                                piezas_capturadas_j2, moves>>
       ELSE IF /\ estado_tablero[<<fila, col>>] # NoPieza
               /\ estado_tablero[<<fila, col>>].jugador = turno_actual
       THEN /\ pieza_seleccionada' = <<fila, col>>
            /\ movimientos_validos' =
                  obtener_movimientos_validos(estado_tablero, turno_actual,
                                              fila, col)
            /\ UNCHANGED <<estado_tablero, turno_actual, jugando_captura,
                           numero_turno, piezas_capturadas_j1,
                           piezas_capturadas_j2, moves>>
       ELSE UNCHANGED <<damasVars, moves>>
    /\ UNCHANGED <<controller, world, gameVars, driverVars, retorno>>

\* a direct call tablero.realizar_movimiento(origen, destino), with any cells
RealizarMovimiento(origen, destino) ==
    /\ controller = "damas_controller"
    /\ IF validar_movimiento(estado_tablero, turno_actual, origen, destino)[1]
       THEN /\ moves < MaxMoves
            /\ realizar_movimiento(origen, destino)
            /\ retorno' = "True"
       ELSE /\ retorno' = "False"
            /\ UNCHANGED <<estado_tablero, turno_actual, pieza_seleccionada,
                           movimientos_validos, jugando_captura, numero_turno,
                           piezas_capturadas_j1, piezas_capturadas_j2, moves>>
    /\ UNCHANGED <<controller, world, gameVars, driverVars>>

(***************************************************************************)
(* Specification                                                           *)
(***************************************************************************)
Init ==
    /\ controller \in {"supervisor_controller", "damas_controller"}
    /\ world \in Worlds
    /\ moves = 0
    /\ board = init_board(world)
    /\ robots = init_robots(world)
    /\ current_team = "WHITE"
    /\ selected_piece = None
    /\ selected_grid = NoneGrid
    /\ waiting_for_robot = FALSE
    /\ moving_robot_name = None
    /\ moving_robot_target = NoneGrid
    /\ forced_piece = None
    /\ fault = None
    /\ last_captured = None
    /\ supervisor_queue = <<>>
    /\ state = [name \in DOMAIN world |-> "IDLE"]
    /\ target = [name \in DOMAIN world |-> <<0, 0>>]
    /\ locked = [name \in DOMAIN world |-> FALSE]
    /\ robot_queue = [name \in DOMAIN world |-> <<>>]
    /\ left_velocity = [name \in DOMAIN world |-> 0]
    /\ right_velocity = [name \in DOMAIN world |-> 0]
    /\ sensed = [name \in DOMAIN world |-> <<0, 0>>]
    /\ estado_tablero = _inicializar_piezas(world)
    /\ turno_actual = 1
    /\ pieza_seleccionada = NoneGrid
    /\ movimientos_validos = <<>>
    /\ jugando_captura = FALSE
    /\ numero_turno = 1
    /\ piezas_capturadas_j1 = 0
    /\ piezas_capturadas_j2 = 0
    /\ retorno = None

Next ==
    \/ \E robot_name \in Names : HandleRobotClick(robot_name)
    \/ \E x \in Coords, y \in Coords : HandleTileClick(x, y)
    \/ ProcessRobotMessages
    \/ RobotsStep
    \/ \E fila \in Coords, col \in Coords : ProcesarClickTile(fila, col)

Spec == Init /\ [][Next]_vars

(***************************************************************************)
(* Positions with a flying king.  A WHITE king stands near a corner; on    *)
(* the long diagonal leading away from it stand a BLACK man and one more   *)
(* piece of either team.  The game goes on from there with WHITE to move.  *)
(***************************************************************************)
KingCorners == {<<1, 1>>, <<6, 1>>}

\* the cell i steps from corner k towards the middle of the board
Along(k, i) ==
    <<k[1] + i * (IF k[1] < 4 THEN 1 ELSE -1),
      k[2] + i * (IF k[2] < 4 THEN 1 ELSE -1)>>

KingWorlds ==
    LET params == {p \in KingCorners \X (1..3) \X (2..5) \X {"B_02", "W_02"} :
                      p[2] # p[3]}
    IN {[n \in {"W_01", "B_01", p[4]} |->
           IF n = "W_01" THEN p[1]
           ELSE IF n = "B_01" THEN Along(p[1], p[2])
           ELSE Along(p[1], p[3])] : p \in params}

\* CheckersGame in the middle of a game: W_01 has been crowned (promote_king
\* has set is_king and sent LOCK), no move is pending, WHITE is to move
InitKing ==
    /\ controller = "supervisor_controller"
    /\ world \in KingWorlds
    /\ moves = 2
    /\ board = init_board(world)
    /\ robots = [init_robots(world) EXCEPT !["W_01"].is_king = TRUE]
    /\ current_team = "WHITE"
    /\ selected_piece = None
    /\ selected_grid = NoneGrid
    /\ waiting_for_robot = FALSE
    /\ moving_robot_name = None
    /\ moving_robot_target = NoneGrid
    /\ forced_piece = None
    /\ fault = None
    /\ last_captured = None
    /\ supervisor_queue = <<>>
    /\ state = [name \in DOMAIN world |-> "IDLE"]
    /\ target = [name \in DOMAIN world |-> <<0, 0>>]
    /\ locked = [name \in DOMAIN world |-> name = "W_01"]
    /\ robot_queue = [name \in DOMAIN world |-> <<>>]
    /\ left_velocity = [name \in DOMAIN world |-> 0]
    /\ right_velocity = [name \in DOMAIN world |-> 0]
    /\ sensed = [name \in DOMAIN world |-> <<0, 0>>]
    /\ estado_tablero = _inicializar_piezas(world)
    /\ turno_actual = 1
    /\ pieza_seleccionada = NoneGrid
    /\ movimientos_validos = <<>>
    /\ jugando_captura = FALSE
    /\ numero_turno = 1
    /\ piezas_capturadas_j1 = 0
    /\ piezas_capturadas_j2 = 0
    /\ retorno = None

\* the steps of a world run by supervisor_controller.py
NextGame ==
    \/ \E robot_name \in Names : HandleRobotClick(robot_name)
    \/ \E x \in Coords, y \in Coords : HandleTileClick(x, y)
    \/ ProcessRobotMessages
    \/ RobotsStep

SpecKing == InitKing /\ [][NextGame]_vars

(***************************************************************************)
(* At-least-once delivery: a packet a receiver has already been handed is  *)
(* handed to it once more                                                  *)
(***************************************************************************)

\* the MOVE robot name received last (its target holds the coordinates), or
\* the LOCK it received, is in its receiver queue again, after the move was
\* finalized
DuplicateToRobot(name) ==
    /\ controller = "supervisor_controller"
    /\ fault = None
    /\ ~waiting_for_robot
    /\ supervisor_queue = <<>>
    /\ \A other \in Names :
          state[other] = "IDLE" /\ robot_queue[other] = <<>>
    /\ \E cmd \in {"MOVE", "LOCK"} :
          /\ cmd = "MOVE" => target[name] # <<0, 0>>
          /\ cmd = "LOCK" => locked[name]
          /\ robot_queue' =
                [robot_queue EXCEPT ![name] =
                    IF cmd = "LOCK"
                    THEN <<<<name, "LOCK">>>>
                    ELSE <<<<name, cmd, target[name][1], target[name][2]>>>>]
    /\ UNCHANGED <<gameVars, state, target, locked, left_velocity,
                   right_velocity, sensed>>
    /\ UNCHANGED <<controller, world, moves, damasVars>>

\* the ARRIVED robot name sent when it reached its target is in the
\* supervisor's receiver queue again, after the move was finalized
DuplicateToSupervisor(name) ==
    /\ controller = "supervisor_controller"
    /\ fault = None
    /\ ~waiting_for_robot
    /\ supervisor_queue = <<>>
    /\ state[name] = "IDLE"
    /\ target[name] # <<0, 0>>
    /\ supervisor_queue' = <<<<name, "ARRIVED">>>>
    /\ UNCHANGED <<board, robots, current_team, selected_piece, selected_grid,
                   waiting_for_robot, moving_robot_name, moving_robot_target,
                   forced_piece, fault, last_captured>>
    /\ UNCHANGED <<controller, world, moves, driverVars, damasVars>>

InitDup ==
    /\ Init
    /\ controller = "supervisor_controller"
    /\ world = WorldLast

NextDup ==
    \/ NextGame
    \/ \E name \in Names : DuplicateToRobot(name)
    \/ \E name \in Names : DuplicateToSupervisor(name)

SpecDup == InitDup /\ [][NextDup]_vars

(***************************************************************************)
(* The drivers sampled finely                                              *)
(***************************************************************************)

InitDrive ==
    /\ Init
    /\ controller = "supervisor_controller"
    /\ world = WorldLast

NextDrive ==
    \/ \E robot_name \in Names : HandleRobotClick(robot_name)
    \/ \E x \in Coords, y \in Coords : HandleTileClick(x, y)
    \/ ProcessRobotMessages
    \/ RobotsStepFine

SpecDrive == InitDrive /\ [][NextDrive]_vars

(***************************************************************************)
(* TableroDamas called directly: besides the clicks of DamasController,    *)
(* realizar_movimiento is requested for any pair of cells, on or off the   *)
(* board.                                                                  *)
(***************************************************************************)

\* the cells of the requests: every dark cell, a light one, two off the board
CeldasPedidas ==
    {c \in Coords \X Coords : _es_casilla_negra(c[1], c[2])}
        \cup {<<0, 1>>, <<-1, 2>>, <<BoardSize, 3>>}

InitTablero == Init /\ controller = "damas_controller"

NextTablero ==
    \/ \E fila \in Coords, col \in Coords : ProcesarClickTile(fila, col)
    \/ \E origen \in CeldasPedidas, destino \in CeldasPedidas :
          RealizarMovimiento(origen, destino)

SpecTablero == InitTablero /\ [][NextTablero]_vars

(***************************************************************************)
(* The game under fair scheduling.  Webots steps every controller in each  *)
(* simulation step: CheckersGame.run polls its receiver in every step in   *)
(* which it waits for a robot, and every CheckerRobotDriver.run reads its  *)
(* receiver and drives.  A robot that keeps turning ends up aligned with   *)
(* its target, and one that keeps driving ends up within TOLERANCE_DIST.   *)
(***************************************************************************)

\* a simulation step in which a robot enters its next phase: it reads its
\* MOVE, or it is aligned and starts to drive, or it is within TOLERANCE_DIST
\* and stops
Advances ==
    /\ RobotsStep
    /\ state' # state

\* worlds with a chain of captures, a crowning and a last piece
LiveWorlds == {WorldCombo, WorldLast, WorldLost}

InitLive ==
    /\ Init
    /\ controller = "supervisor_controller"
    /\ world \in LiveWorlds

SpecLive ==
    /\ InitLive
    /\ [][NextGame]_vars
    /\ WF_vars(ProcessRobotMessages)
    /\ WF_vars(Advances)

(***************************************************************************)
(* Tile events of any coordinates                                          *)
(***************************************************************************)

InitTiles == Init /\ controller = "supervisor_controller"

NextTiles ==
    \/ NextGame
    \/ \E x \in TileCoords, y \in TileCoords : HandleTileOutside(x, y)

SpecTiles == InitTiles /\ [][NextTiles]_vars

(***************************************************************************)
(* Packets as text: a packet is the sequence of its characters             *)
(***************************************************************************)

Digits == <<"0", "1", "2", "3", "4", "5", "6", "7", "8", "9">>

IsDigit(c) == \E k \in DOMAIN Digits : Digits[k] = c

DigitValue(c) == (CHOOSE k \in DOMAIN Digits : Digits[k] = c) - 1

\* the number i of the robot named W_i or B_i
RobotNumber(name) ==
    LET white_list == <<"W_01", "W_02", "W_03", "W_04", "W_05", "W_06",
                        "W_07", "W_08", "W_09", "W_10", "W_11", "W_12">>
        black_list == <<"B_01", "B_02", "B_03", "B_04", "B_05", "B_06",
                        "B_07", "B_08", "B_09", "B_10", "B_11", "B_12">>
    IN CHOOSE i \in 1..12 : white_list[i] = name \/ black_list[i] = name

\* f"W_{i:02d}" and f"B_{i:02d}"
NameText(name) ==
    <<IF name \in white_names THEN "W" ELSE "B", "_",
      Digits[(RobotNumber(name) \div 10) + 1],
      Digits[(RobotNumber(name) % 10) + 1]>>

\* the characters of the command words
Word(w) ==
    CASE w = "MOVE" -> <<"M", "O", "V", "E">>
      [] w = "DIE" -> <<"D", "I", "E">>
      [] w = "LOCK" -> <<"L", "O", "C", "K">>
      [] w = "ARRIVED" -> <<"A", "R", "R", "I", "V", "E", "D">>
      [] w = "PING" -> <<"P", "I", "N", "G">>

\* f"{v:.4f}" of a coordinate of v units of 0.0001 m, |v| < 10 m
format_4f(v) ==
    LET a == Abs(v)
    IN (IF v < 0 THEN <<"-">> ELSE <<>>) \o
       <<Digits[(a \div 10000) + 1], ".",
         Digits[((a \div 1000) % 10) + 1], Digits[((a \div 100) % 10) + 1],
         Digits[((a \div 10) % 10) + 1], Digits[(a % 10) + 1]>>

\* " ".join(tokens)
RECURSIVE join(_)
join(tokens) ==
    IF tokens = <<>> THEN <<>>
    ELSE IF Len(tokens) = 1 THEN tokens[1]
    ELSE tokens[1] \o <<" ">> \o join(Tail(tokens))

\* msg.split(): the maximal runs of characters other than blanks
RECURSIVE split_from(_, _, _)
split_from(msg, current, parts) ==
    IF msg = <<>>
    THEN IF current = <<>> THEN parts ELSE Append(parts, current)
    ELSE IF Head(msg) = " "
    THEN split_from(Tail(msg), <<>>,
                    IF current = <<>> THEN parts ELSE Append(parts, current))
    ELSE split_from(Tail(msg), Append(current, Head(msg)), parts)

split(msg) == split_from(msg, <<>>, <<>>)

\* startswith comparing the first character only
startswith_first_char(msg, prefix) ==
    Len(msg) >= 1 /\ msg[1] = prefix[1]

\* msg.startswith(prefix)
startswith(msg, prefix) ==
    /\ Len(msg) >= Len(prefix)
    /\ SubSeq(msg, 1, Len(prefix)) = prefix

\* the value of a run of digits
RECURSIVE digits_value(_, _)
digits_value(ds, acc) ==
    IF ds = <<>> THEN acc
    ELSE digits_value(Tail(ds), acc * 10 + DigitValue(Head(ds)))

\* float(token) -> <<raises, value>> in units of 0.0001: an optional sign, a
\* run of digits, and optionally a point and up to four digits
float(token) ==
    LET negative == token # <<>> /\ Head(token) = "-"
        body == IF negative THEN Tail(token) ELSE token
        points == {i \in DOMAIN body : body[i] = "."}
        cut == IF points = {} THEN Len(body) + 1
               ELSE CHOOSE i \in points : \A j \in points : i <= j
        whole == SubSeq(body, 1, cut - 1)
        fraction == SubSeq(body, cut + 1, Len(body))
        well_formed ==
            /\ Cardinality(points) <= 1
            /\ Len(whole) + Len(fraction) >= 1
            /\ Len(fraction) <= 4
            /\ \A i \in DOMAIN whole : IsDigit(whole[i])
            /\ \A i \in DOMAIN fraction : IsDigit(fraction[i])
        padded == fraction \o [i \in 1..(4 - Len(fraction)) |-> "0"]
        magnitude == digits_value(whole, 0) * 10000 + digits_value(padded, 0)
    IN IF well_formed
       THEN <<None, IF negative THEN -magnitude ELSE magnitude>>
       ELSE <<"ValueError", 0>>

\* the message execute_move emits, as text
MoveText(piece, destination) ==
    LET w == grid_to_world(destination[1], destination[2])
    IN join(<<NameText(piece), Word("MOVE"), format_4f(w[1]),
              format_4f(w[2])>>)

\* f"{self.name} ARRIVED"
ArrivedText(name) == join(<<NameText(name), Word("ARRIVED")>>)

\* one iteration of the while loop of CheckerRobotDriver.process_messages on
\* the packet msg; r = [d, raised], d the driver state and raised the
\* exception that ended the loop (None while it runs)
driver_message_text(r, name, msg) ==
    IF ~startswith(msg, NameText(name))
    THEN r
    ELSE LET parts == split(msg)
         IN IF Len(parts) < 2
            THEN [r EXCEPT !.raised = "IndexError"]
            ELSE IF parts[2] = Word("MOVE") \/ parts[2] = Word("DIE")
            THEN IF Len(parts) < 3
                 THEN [r EXCEPT !.raised = "IndexError"]
                 ELSE IF float(parts[3])[1] # None
                 THEN [r EXCEPT !.raised = "ValueError"]
                 ELSE IF Len(parts) < 4
                 THEN [r EXCEPT !.d.target[1] = float(parts[3])[2],
                                !.raised = "IndexError"]
                 ELSE IF float(parts[4])[1] # None
                 THEN [r EXCEPT !.d.target[1] = float(parts[3])[2],
                                !.raised = "ValueError"]
                 ELSE [r EXCEPT !.d.target = <<float(parts[3])[2],
                                               float(parts[4])[2]>>,
                                !.d.state = "ROTATING"]
            ELSE IF parts[2] = Word("LOCK")
            THEN [r EXCEPT !.d.locked = TRUE]
            ELSE r

RECURSIVE process_messages_text(_, _, _)
process_messages_text(r, name, q) ==
    IF q = <<>> \/ r.raised # None THEN r
    ELSE process_messages_text(driver_message_text(r, name, Head(q)), name,
                               Tail(q))

\* the driver state and exception process_messages leaves for robot name
AfterText(name) ==
    process_messages_text([d |-> [state |-> state[name],
                                  target |-> target[name],
                                  locked |-> locked[name]],
                           raised |-> None],
                          name, robot_queue[name])

\* one simulation step of every CheckerRobotDriver, reading packets as text
RobotsStepText ==
    /\ controller = "supervisor_controller"
    /\ fault = None
    /\ LET crashed == {name \in Names : AfterText(name).raised # None}
       IN /\ DriversRun([name \in Names |-> AfterText(name).d], crashed,
                        [name \in Names |-> ArrivedText(name)],
                        DistSamples \X AngleSamples)
          /\ fault' = IF crashed = {} THEN None
                      ELSE AfterText(CHOOSE name \in crashed : TRUE).raised
    /\ robot_queue' = [name \in Names |-> <<>>]
    /\ UNCHANGED <<board, robots, current_team, selected_piece, selected_grid,
                   waiting_for_robot, moving_robot_name, moving_robot_target,
                   forced_piece, last_captured>>
    /\ UNCHANGED <<controller, world, moves, damasVars>>

\* one iteration of the while loop of process_robot_messages on the packet
\* msg; g.raised is the exception that ended the loop
ProcessOneText(g, msg) ==
    LET parts == split(msg)
    IN IF Len(parts) < 2
       THEN [g EXCEPT !.raised = "IndexError"]
       ELSE IF /\ parts[2] = Word("ARRIVED")
               /\ g.moving_robot_name # None
               /\ parts[1] = NameText(g.moving_robot_name)
       THEN ProcessOneMessage(g, <<g.moving_robot_name, "ARRIVED">>)
       ELSE g

RECURSIVE ProcessQueueText(_, _)
ProcessQueueText(g, q) ==
    IF q = <<>> \/ g.raised # None THEN [g EXCEPT !.rest = q]
    ELSE ProcessQueueText(ProcessOneText(g, Head(q)), Tail(q))

\* the LOCK packets promote_king emits, as text
LockTexts(sent) ==
    [i \in DOMAIN sent |-> join(<<NameText(sent[i][1]), Word("LOCK")>>)]

\* run: if waiting_for_robot: process_robot_messages(), reading packets as
\* text
ProcessRobotMessagesText ==
    /\ controller = "supervisor_controller"
    /\ fault = None
    /\ waiting_for_robot
    /\ supervisor_queue # <<>>
    /\ LET g0 == [robots |-> robots, current_team |-> current_team,
                  selected_piece |-> selected_piece,
                  waiting_for_robot |-> waiting_for_robot,
                  moving_robot_name |-> moving_robot_name,
                  moving_robot_target |-> moving_robot_target,
                  forced_piece |-> forced_piece, sent |-> <<>>,
                  raised |-> None, rest |-> <<>>]
           g == ProcessQueueText(g0, supervisor_queue)
       IN /\ robots' = g.robots
          /\ current_team' = g.current_team
          /\ selected_piece' = g.selected_piece
          /\ waiting_for_robot' = g.waiting_for_robot
          /\ moving_robot_name' = g.moving_robot_name
          /\ moving_robot_target' = g.moving_robot_target
          /\ robot_queue' = BroadcastAll(robot_queue, LockTexts(g.sent))
          /\ fault' = g.raised
          /\ supervisor_queue' = g.rest
    /\ UNCHANGED <<board, selected_grid, forced_piece, last_captured,
                   state, target, locked, left_velocity, right_velocity,
                   sensed>>
    /\ UNCHANGED <<controller, world, moves, damasVars>>

\* worlds of two robots: any robot on cell (1,1) and one of two on (5,5)
SecondNames == {"W_10", "B_02"}

MsgWorlds ==
    {[n \in {pq[1], pq[2]} |-> IF n = pq[1] THEN <<1, 1>> ELSE <<5, 5>>] :
        pq \in {c \in (white_names \cup black_names) \X SecondNames :
                   c[1] # c[2]}}

\* the packets a receiver is handed: the commands addressed to a robot of the
\* world, well formed or cut short, and packets with no addressee
MsgTexts(w) ==
    LET tx == format_4f(-3000)
        ty == format_4f(1000)
    IN UNION {{join(<<NameText(a), Word("MOVE"), tx, ty>>),
               join(<<NameText(a), Word("DIE"), tx, ty>>),
               join(<<NameText(a), Word("LOCK")>>),
               join(<<NameText(a), Word("ARRIVED")>>),
               join(<<NameText(a), Word("PING")>>),
               join(<<NameText(a), Word("MOVE")>>),
               join(<<NameText(a), Word("MOVE"), tx>>),
               NameText(a)} : a \in DOMAIN w}
       \cup {<<>>, Word("ARRIVED"), join(<<Word("MOVE"), tx, ty>>)}

\* the game at its start, or after WHITE has committed its first move (one
\* cell up and to the right) and before any robot has read it, with one
\* packet more in every receiver
InitMsg ==
    /\ controller = "supervisor_controller"
    /\ world \in MsgWorlds
    /\ robots = init_robots(world)
    /\ current_team = "WHITE"
    /\ selected_piece = None
    /\ selected_grid = NoneGrid
    /\ forced_piece = None
    /\ fault = None
    /\ last_captured = None
    /\ state = [name \in DOMAIN world |-> "IDLE"]
    /\ target = [name \in DOMAIN world |-> <<0, 0>>]
    /\ locked = [name \in DOMAIN world |-> FALSE]
    /\ left_velocity = [name \in DOMAIN world |-> 0]
    /\ right_velocity = [name \in DOMAIN world |-> 0]
    /\ sensed = [name \in DOMAIN world |-> <<0, 0>>]
    /\ \E msg \in MsgTexts(world) :
          \/ /\ moves = 0
             /\ board = init_board(world)
             /\ waiting_for_robot = FALSE
             /\ moving_robot_name = None
             /\ moving_robot_target = NoneGrid
             /\ robot_queue = [name \in DOMAIN world |-> <<msg>>]
             /\ supervisor_queue = <<msg>>
          \/ \E piece \in DOMAIN world \cap white_names :
               LET destination == <<world[piece][1] + 1, world[piece][2] + 1>>
               IN /\ moves = 1
                  /\ board = execute_move_board(init_board(world),
                                                world[piece], destination,
                                                None)
                  /\ waiting_for_robot = TRUE
                  /\ moving_robot_name = piece
                  /\ moving_robot_target = destination
                  /\ robot_queue = [name \in DOMAIN world |->
                                      <<MoveText(piece, destination), msg>>]
                  /\ supervisor_queue = <<msg>>
    /\ estado_tablero = _inicializar_piezas(world)
    /\ turno_actual = 1
    /\ pieza_seleccionada = NoneGrid
    /\ movimientos_validos = <<>>
    /\ jugando_captura = FALSE
    /\ numero_turno = 1
    /\ piezas_capturadas_j1 = 0
    /\ piezas_capturadas_j2 = 0
    /\ retorno = None

NextMsg ==
    \/ RobotsStepText
    \/ ProcessRobotMessagesText

SpecMsg == InitMsg /\ [][NextMsg]_vars

(***************************************************************************)
(* Properties                                                              *)
(***************************************************************************)
CellsOf(b, name) == {c \in Coords \X Coords : b[c[2]][c[1]] = name}

OccupiedDamas == {pos \in Coords \X Coords : estado_tablero[pos] # NoPieza}

\* C1: the board and the piece records agree in every reachable state.
\* CheckersGame: an alive robot is on exactly one cell, a dead robot on none,
\* and every non-empty cell holds a known robot.  TableroDamas: no two cells
\* hold the same piece, every piece is a piece of the world, and the pieces
\* on the board are the pieces of the world minus the captured ones.
C1_BoardAgreesWithPieces ==
    /\ \A name \in DOMAIN robots :
          Cardinality(CellsOf(board, name)) =
             (IF robots[name].alive THEN 1 ELSE 0)
    /\ \A y \in Coords, x \in Coords :
          board[y][x] # None => board[y][x] \in DOMAIN robots
    /\ \A p, q \in OccupiedDamas :
          estado_tablero[p].nombre = estado_tablero[q].nombre => p = q
    /\ \A p \in OccupiedDamas : estado_tablero[p].nombre \in Names
    /\ Cardinality(OccupiedDamas) + piezas_capturadas_j1 + piezas_capturadas_j2
          = Cardinality(Names)

C1_Witness ==
    /\ controller = "supervisor_controller"
    /\ ~waiting_for_robot
    /\ current_team = "BLACK"
    /\ Cardinality({name \in DOMAIN robots : ~robots[name].alive}) = 2

\* a capture exists for jugador by the rules of TableroDamas: one of its
\* pieces has, in a direction it may move in, an opposing piece next to it
\* and an empty cell of the board behind that piece
CapturaDisponible(et, jugador) ==
    \E pos \in Coords \X Coords :
        /\ et[pos] # NoPieza
        /\ et[pos].jugador = jugador
        /\ \E i \in DOMAIN direcciones(jugador, et[pos].es_reina) :
              LET d == direcciones(jugador, et[pos].es_reina)[i]
                  medio == <<pos[1] + d[1], pos[2] + d[2]>>
                  salto == <<pos[1] + 2 * d[1], pos[2] + 2 * d[2]>>
              IN /\ salto[1] \in Coords /\ salto[2] \in Coords
                 /\ et[medio] # NoPieza
                 /\ et[medio].jugador # jugador
                 /\ et[salto] = NoPieza

\* C2: in TableroDamas, when some piece of the team to move has a capture,
\* obtener_movimientos_validos returns only captures for every piece of
\* that team.
C2_MandatoryCapture ==
    CapturaDisponible(estado_tablero, turno_actual) =>
        \A pos \in OccupiedDamas :
            estado_tablero[pos].jugador = turno_actual =>
                LET movs == obtener_movimientos_validos(estado_tablero,
                               turno_actual, pos[1], pos[2])
                IN \A i \in DOMAIN movs : movs[i][2]

\* a piece of the team to move with an empty cell to step to is selected and
\* is offered no move, because another piece has a capture
C2_Witness ==
    /\ controller = "damas_controller"
    /\ CapturaDisponible(estado_tablero, turno_actual)
    /\ pieza_seleccionada # NoneGrid
    /\ movimientos_validos = <<>>
    /\ \E i \in DOMAIN direcciones(turno_actual,
                                   estado_tablero[pieza_seleccionada].es_reina) :
          LET d == direcciones(turno_actual,
                               estado_tablero[pieza_seleccionada].es_reina)[i]
              paso == <<pieza_seleccionada[1] + d[1],
                        pieza_seleccionada[2] + d[2]>>
          IN /\ paso[1] \in Coords /\ paso[2] \in Coords
             /\ estado_tablero[paso] = NoPieza

\* C3: while forced_piece is set, selected_piece is None or forced_piece, and
\* a click that commits no move (a robot click, a rejected tile click) leaves
\* the selection as it is.
C3_ForcedSelectionKept ==
    /\ [](forced_piece # None => selected_piece \in {None, forced_piece})
    /\ [][(/\ forced_piece # None
           /\ ~waiting_for_robot
           /\ ~waiting_for_robot')
          => /\ selected_piece' = selected_piece
             /\ selected_piece' = forced_piece]_vars

C3_Witness ==
    /\ forced_piece # None
    /\ ~waiting_for_robot
    /\ selected_piece = forced_piece
    /\ fault = None
    /\ \E name \in DOMAIN robots :
          /\ name # forced_piece
          /\ robots[name].alive
          /\ robots[name].team = current_team

ReinasDamas(et) ==
    {et[pos].nombre : pos \in {q \in Coords \X Coords :
                                  et[q] # NoPieza /\ et[q].es_reina}}

PiezasDamas(et) ==
    {et[pos].nombre : pos \in {q \in Coords \X Coords : et[q] # NoPieza}}

\* C4: a piece that is a king stays a king: is_king never goes back to
\* False, and a piece of TableroDamas that is a reina is a reina for as long
\* as it is on the board.
C4_PromotionMonotonic ==
    [][/\ \A name \in DOMAIN robots :
             robots[name].is_king => robots'[name].is_king
       /\ \A nombre \in ReinasDamas(estado_tablero) :
             nombre \in PiezasDamas(estado_tablero')
                => nombre \in ReinasDamas(estado_tablero')]_vars

\* a king that has left the row it was crowned on
C4_Witness ==
    \E name \in DOMAIN robots :
       /\ robots[name].is_king
       /\ robots[name].alive
       /\ ~waiting_for_robot
       /\ \A c \in CellsOf(board, name) :
             c[2] # (IF robots[name].team = "WHITE" THEN LastRow ELSE 0)

pendingVars == <<board, current_team, selected_piece, forced_piece,
                 waiting_for_robot, moving_robot_name, moving_robot_target>>

MatchingArrived ==
    \E i \in DOMAIN supervisor_queue :
        supervisor_queue[i] = <<moving_robot_name, "ARRIVED">>

\* C5: while waiting_for_robot, robot clicks and tile clicks leave the board,
\* the turn, the selection, the forced piece and the pending move unchanged;
\* they change only when process_robot_messages reads the ARRIVED of the
\* moving robot.
C5_WaitingBlocksClicks ==
    [][waiting_for_robot =>
         /\ ((\E name \in Names : HandleRobotClick(name))
                => UNCHANGED <<pendingVars, selected_grid, robots>>)
         /\ ((\E x \in Coords, y \in Coords : HandleTileClick(x, y))
                => UNCHANGED <<pendingVars, selected_grid, robots>>)
         /\ (pendingVars' # pendingVars
                => ProcessRobotMessages /\ MatchingArrived)]_vars

C5_Witness ==
    /\ waiting_for_robot
    /\ state[moving_robot_name] = "MOVING"
    /\ supervisor_queue = <<>>
    /\ \E name \in DOMAIN robots :
          robots[name].alive /\ robots[name].team = current_team

MoveCount(q) == Cardinality({i \in DOMAIN q : q[i][2] = "MOVE"})

\* a MOVE addressed to name is unacknowledged: still in the robot's queue,
\* being executed, or its ARRIVED not yet read by the supervisor
InFlight(name) ==
    \/ \E i \in DOMAIN robot_queue[name] :
          /\ robot_queue[name][i][1] = name
          /\ robot_queue[name][i][2] = "MOVE"
    \/ state[name] # "IDLE"
    \/ \E i \in DOMAIN supervisor_queue :
          supervisor_queue[i] = <<name, "ARRIVED">>

MoveEmitted ==
    \E name \in Names : MoveCount(robot_queue'[name]) > MoveCount(robot_queue[name])

\* C6: at most one move is in flight, it is the pending move of the
\* supervisor, and a MOVE is emitted only when no move is pending or in
\* flight.
C6_OneMoveInFlight ==
    /\ [](/\ Cardinality({name \in Names : InFlight(name)}) <= 1
          /\ \A name \in Names : MoveCount(robot_queue[name]) <= 1
          /\ \A name \in Names :
                InFlight(name) => waiting_for_robot /\ moving_robot_name = name)
    /\ [][MoveEmitted =>
            /\ ~waiting_for_robot
            /\ \A name \in Names : ~InFlight(name)
            /\ waiting_for_robot']_vars

\* a second move is in flight after the first one was acknowledged
C6_Witness ==
    /\ waiting_for_robot
    /\ moves >= 2
    /\ state[moving_robot_name] = "ROTATING"
    /\ \A name \in Names : name # moving_robot_name => state[name] = "IDLE"

\* what handle_robot_click requires of a selection, as the claim states it
SelectionAllowed(name) ==
    /\ robots[name].team = current_team
    /\ robots[name].alive
    /\ forced_piece # None => name = forced_piece

\* C7: handle_robot_click selects the clicked piece only if it belongs to
\* current_team, is alive and is forced_piece when forced_piece is set; a
\* click violating one of these changes nothing and raises nothing.
C7_SelectionRejected ==
    [][\A name \in Names :
          HandleRobotClick(name) =>
             /\ fault' = None
             /\ (~SelectionAllowed(name) => UNCHANGED vars)
             /\ (SelectionAllowed(name) /\ ~waiting_for_robot =>
                    /\ selected_piece' = name
                    /\ selected_grid' \in CellsOf(board, name))]_vars

\* a dead piece of the team to move can be clicked
C7_Witness ==
    /\ ~waiting_for_robot
    /\ fault = None
    /\ controller = "supervisor_controller"
    /\ \E name \in DOMAIN robots :
          robots[name].team = current_team /\ ~robots[name].alive

\* handle_tile_click reaches validate_move, which returns (False, None)
TileRejected(x, y) ==
    /\ ~waiting_for_robot
    /\ selected_piece # None
    /\ validate_move_raises(board, selected_grid, <<x, y>>) = None
    /\ ~validate_move(board, robots, forced_piece, selected_grid, <<x, y>>)[1]

\* C8: a destination that validate_move rejects clears selected_piece when
\* forced_piece is None, keeps it when forced_piece is set, and changes
\* nothing else; no MOVE is sent.
C8_RejectedDestination ==
    [][\/ /\ selected_piece' =
                (IF forced_piece = None THEN None ELSE selected_piece)
          /\ UNCHANGED <<board, robots, current_team, forced_piece,
                         waiting_for_robot, moving_robot_name,
                         moving_robot_target, selected_grid, fault,
                         robot_queue, supervisor_queue, driverVars>>
       \/ ~\E x \in Coords, y \in Coords :
              TileRejected(x, y) /\ HandleTileClick(x, y)]_vars

\* the forced piece is selected on its own cell, so that a rejected
\* destination is one validate_move answers for that piece
C8_Witness ==
    /\ forced_piece # None
    /\ ~waiting_for_robot
    /\ fault = None
    /\ selected_piece = forced_piece
    /\ selected_grid \in CellsOf(board, forced_piece)

\* C9: the step that commits a move relocates the moved piece from the
\* selected cell to the destination, marks the captured piece (if any) dead
\* and removes it, leaves every other cell alone, appends exactly one MOVE
\* for the moved piece with the world coordinates of the destination cell to
\* the channel, and records the pending move.
C9_CommitIsAtomic ==
    [][~waiting_for_robot /\ waiting_for_robot' =>
         LET piece == moving_robot_name'
             dest == moving_robot_target'
             origin == selected_grid
             died == {name \in Names :
                         robots[name].alive /\ ~robots'[name].alive}
         IN /\ piece = selected_piece
            /\ board[origin[2]][origin[1]] = piece
            /\ board[dest[2]][dest[1]] = None
            /\ board'[dest[2]][dest[1]] = piece
            /\ board'[origin[2]][origin[1]] = None
            /\ Cardinality(died) <= 1
            /\ died = {validate_move(board, robots, forced_piece,
                                     origin, dest)[2]} \ {None}
            /\ \A name \in died : robots[name].team # robots[piece].team
            /\ \A y \in Coords, x \in Coords :
                  <<x, y>> \notin {origin, dest} =>
                     board'[y][x] = (IF board[y][x] \in died THEN None
                                     ELSE board[y][x])
            /\ \A name \in Names :
                  /\ Len(robot_queue'[name]) = Len(robot_queue[name]) + 1
                  /\ SubSeq(robot_queue'[name], 1, Len(robot_queue[name]))
                        = robot_queue[name]
                  /\ LET msg == robot_queue'[name][Len(robot_queue'[name])]
                     IN /\ msg[1] = piece
                        /\ msg[2] = "MOVE"
                        /\ world_to_grid(msg[3], msg[4]) = dest
                        /\ msg[3] = WorldOrigin + dest[1] * CellSize
                        /\ msg[4] = WorldOrigin + dest[2] * CellSize]_vars

\* a capturing move has just been committed and its MOVE is still in the
\* channel
C9_Witness ==
    /\ waiting_for_robot
    /\ last_captured # None
    /\ ~robots[last_captured].alive
    /\ robot_queue[moving_robot_name] # <<>>
    /\ CellsOf(board, moving_robot_name) = {moving_robot_target}

\* C10: when the ARRIVED of the moving robot is processed for a move that
\* captured a piece, did not reach the back rank, and leaves the moved piece
\* with a further capture from its new cell, then afterwards forced_piece and
\* selected_piece are the moved piece, waiting_for_robot is False and
\* current_team is unchanged.
C10_ComboContinues ==
    [][(/\ ProcessRobotMessages
        /\ MatchingArrived
        /\ last_captured # None
        /\ ~reaches_back_rank(robots, moving_robot_name, moving_robot_target[2])
        /\ can_capture_more(board, robots, None, moving_robot_name,
                            moving_robot_target[1], moving_robot_target[2]))
       => /\ forced_piece' = moving_robot_name
          /\ selected_piece' = moving_robot_name
          /\ ~waiting_for_robot'
          /\ current_team' = current_team]_vars

\* the combo piece has arrived and is selected again
C10_Witness ==
    /\ forced_piece # None
    /\ ~waiting_for_robot
    /\ selected_piece = forced_piece
    /\ moving_robot_name = forced_piece
    /\ last_captured # None
    /\ supervisor_queue = <<>>
    /\ state[forced_piece] = "IDLE"

\* the row a man of the team is crowned on
BackRank(team) == IF team = "WHITE" THEN LastRow ELSE 0

\* the step is the commit of a move by execute_move
Commits == ~waiting_for_robot /\ waiting_for_robot'

\* the step is process_robot_messages reading the ARRIVED of the moving robot
Arrives == ProcessRobotMessages /\ MatchingArrived

\* the pending move is the move of a man to the row it is crowned on
PendingCrowns ==
    /\ moving_robot_name # None
    /\ ~robots[moving_robot_name].is_king
    /\ moving_robot_target[2] = BackRank(robots[moving_robot_name].team)

\* C11: in CheckersGame a capturing move that lands a man on its promotion
\* row ends the capture chain: forced_piece is None after the commit, and
\* when the ARRIVED of that move is processed the turn switches, whether or
\* not a further capture is available from the landing cell.
C11_CrowningEndsChain ==
    [][/\ (/\ Commits
            /\ last_captured' # None
            /\ ~robots[moving_robot_name'].is_king
            /\ moving_robot_target'[2] =
                  BackRank(robots[moving_robot_name'].team))
           => forced_piece' = None
       /\ (Arrives /\ last_captured # None /\ PendingCrowns)
           => /\ forced_piece' = None
              /\ ~waiting_for_robot'
              /\ current_team' # current_team
              /\ current_team' \in {"WHITE", "BLACK"}]_vars

\* a man has captured onto its promotion row and has arrived; the turn has
\* passed although the crowned piece could capture again from where it landed
C11_Witness ==
    /\ ~waiting_for_robot
    /\ fault = None
    /\ moves = 1
    /\ last_captured # None
    /\ forced_piece = None
    /\ \E name \in DOMAIN robots :
          /\ robots[name].is_king
          /\ current_team # robots[name].team
          /\ \E c \in CellsOf(board, name) :
                /\ c[2] = BackRank(robots[name].team)
                /\ can_capture_more(board, robots, None, name, c[1], c[2])

\* C12: when the ARRIVED of the moving robot is processed and forced_piece is
\* None, afterwards forced_piece, selected_piece, moving_robot_name and
\* moving_robot_target are all None, waiting_for_robot is False and
\* current_team is the other team.
C12_TurnEnds ==
    [][(Arrives /\ forced_piece = None)
       => /\ forced_piece' = None
          /\ selected_piece' = None
          /\ moving_robot_name' = None
          /\ moving_robot_target' = NoneGrid
          /\ ~waiting_for_robot'
          /\ current_team' = (IF current_team = "WHITE" THEN "BLACK"
                                                       ELSE "WHITE")]_vars

\* BLACK has finished a move of its own: the turn is back with WHITE and
\* nothing is pending
C12_Witness ==
    /\ controller = "supervisor_controller"
    /\ moves = 2
    /\ current_team = "WHITE"
    /\ ~waiting_for_robot
    /\ moving_robot_name = None
    /\ moving_robot_target = NoneGrid
    /\ selected_piece = None
    /\ forced_piece = None
    /\ fault = None

\* C13: in CheckersGame a man becomes a king only at the end of a move.
\* is_king changes in no step other than the processing of the ARRIVED of
\* the moving robot, and there only for the moving man of a move whose target
\* row is its back rank (7 for WHITE, 0 for BLACK), which it always crowns;
\* the commit and the steps made while waiting_for_robot leave is_king alone.
C13_CrownedOnArrival ==
    [][/\ \A name \in DOMAIN robots :
             robots'[name].is_king # robots[name].is_king
                => /\ Arrives
                   /\ PendingCrowns
                   /\ name = moving_robot_name
                   /\ robots'[name].is_king
       /\ (Arrives /\ PendingCrowns) => robots'[moving_robot_name].is_king
       /\ Commits => \A name \in DOMAIN robots :
                        robots'[name].is_king = robots[name].is_king
       /\ (waiting_for_robot /\ ~Arrives)
             => \A name \in DOMAIN robots :
                   robots'[name].is_king = robots[name].is_king]_vars

\* a man is on its way to its back rank, or has driven there and its ARRIVED
\* is unread: it is still a man
C13_Witness ==
    /\ waiting_for_robot
    /\ PendingCrowns
    /\ MatchingArrived
    /\ state[moving_robot_name] = "IDLE"
    /\ ~robots[moving_robot_name].is_king

\* C14: for any column c, when a WHITE man makes a non-capturing move to row
\* 7 and the move is finalized (its ARRIVED is processed), the piece is a
\* king, forced_piece is None and the turn has switched to BLACK.
C14_WhiteCrownedOnSimpleMove ==
    [][(/\ Arrives
        /\ last_captured = None
        /\ robots[moving_robot_name].team = "WHITE"
        /\ ~robots[moving_robot_name].is_king
        /\ moving_robot_target[1] \in Coords
        /\ moving_robot_target[2] = LastRow)
       => /\ robots'[moving_robot_name].is_king
          /\ forced_piece' = None
          /\ current_team' = "BLACK"
          /\ ~waiting_for_robot']_vars

\* the WHITE pieces crowned on cell <<c, 7>> by a move that captured nothing
CrownedBySimpleMove(c) ==
    {name \in DOMAIN robots :
        /\ robots[name].team = "WHITE"
        /\ robots[name].is_king
        /\ board[LastRow][c] = name
        /\ last_captured = None
        /\ moves = 1
        /\ ~waiting_for_robot
        /\ current_team = "BLACK"}

\* a WHITE man has stepped into the corner of row 7 and was crowned there
C14_Witness ==
    /\ CrownedBySimpleMove(LastRow) # {}
    /\ forced_piece = None
    /\ fault = None

\* the piece on cell c, a man of the team, can jump forward over an opposing
\* piece next to it onto an empty cell of the board
ManCanCapture(team, c) ==
    \E side \in {-1, 1} :
        LET ahead == IF team = "WHITE" THEN 1 ELSE -1
            mid == <<c[1] + side, c[2] + ahead>>
            landing == <<c[1] + 2 * side, c[2] + 2 * ahead>>
        IN /\ InRange(landing[1], landing[2])
           /\ board[landing[2]][landing[1]] = None
           /\ board[mid[2]][mid[1]] # None
           /\ robots[board[mid[2]][mid[1]]].team # team

\* the piece on cell c, a king of the team, can fly over exactly one opposing
\* piece onto an empty cell of the board
KingCanCapture(team, c) ==
    \E d \in directions : \E dist \in 2..(BoardSize - 1) :
        LET landing == <<c[1] + d[1] * dist, c[2] + d[2] * dist>>
            between == {board[c[2] + d[2] * i][c[1] + d[1] * i] :
                           i \in 1..(dist - 1)} \ {None}
        IN /\ InRange(landing[1], landing[2])
           /\ board[landing[2]][landing[1]] = None
           /\ Cardinality({i \in 1..(dist - 1) :
                  board[c[2] + d[2] * i][c[1] + d[1] * i] # None}) = 1
           /\ \A name \in between : robots[name].team # team

\* some alive piece of the team has a capture available
CaptureAvailable(team) ==
    \E name \in DOMAIN robots :
        /\ robots[name].alive
        /\ robots[name].team = team
        /\ \E c \in CellsOf(board, name) :
              IF robots[name].is_king
              THEN KingCanCapture(team, c)
              ELSE ManCanCapture(team, c)

\* C15: in CheckersGame, when an alive piece of current_team has a capture
\* available, no non-capturing move of a piece of that team is accepted: a
\* move committed in such a state captures a piece.
C15_SimpleMoveRejectedWhenCapture ==
    [][(Commits /\ CaptureAvailable(current_team))
          => last_captured' # None]_vars

\* the cells a man on cell c reaches by a 2-cell jump away from the row it
\* is crowned on
BackwardJumps(team, c) ==
    {dest \in Coords \X Coords :
        /\ Abs(dest[1] - c[1]) = 2
        /\ dest[2] - c[2] = (IF team = "WHITE" THEN -2 ELSE 2)}

\* C16: in CheckersGame a man captures only by a 2-cell jump in one of its
\* two forward directions, also while continuing a capture sequence:
\* validate_move rejects, for every alive man, every backward 2-cell jump,
\* and can_capture_more does not count one.
C16_ManCapturesForward ==
    \A name \in DOMAIN robots :
        (robots[name].alive /\ ~robots[name].is_king) =>
            \A c \in CellsOf(board, name) :
                /\ \A dest \in BackwardJumps(robots[name].team, c) :
                      ~validate_move(board, robots, forced_piece, c, dest)[1]
                /\ can_capture_more(board, robots, forced_piece, name,
                                    c[1], c[2])
                      => ManCanCapture(robots[name].team, c)

\* the pieces standing strictly between cell c and the cell dist steps from
\* it in direction d, as a set of <<step, name>>
PiecesBetween(c, d, dist) ==
    {<<i, board[c[2] + d[2] * i][c[1] + d[1] * i]>> : i \in 1..(dist - 1)}
        \ {<<i, None>> : i \in 1..(dist - 1)}

\* C17: for a king and any diagonal destination at distance >= 2,
\* validate_move answers a legal capture exactly when the landing cell is
\* empty and the cells strictly between origin and destination hold exactly
\* one piece, of the opposing team, which is returned as the captured piece;
\* with an own piece or a second piece in the path the move is illegal.
C17_FlyingCapture ==
    \A name \in DOMAIN robots :
        (robots[name].alive /\ robots[name].is_king) =>
            \A c \in CellsOf(board, name) :
            \A d \in directions : \A dist \in 2..(BoardSize - 1) :
                LET dest == <<c[1] + d[1] * dist, c[2] + d[2] * dist>>
                    found == PiecesBetween(c, d, dist)
                    res == validate_move(board, robots, forced_piece, c, dest)
                    legal == /\ board[dest[2]][dest[1]] = None
                             /\ Cardinality(found) = 1
                             /\ \A f \in found :
                                   robots[f[2]].team # robots[name].team
                IN InRange(dest[1], dest[2]) =>
                      /\ (res[1] /\ res[2] # None) <=> legal
                      /\ legal => \A f \in found : res = <<TRUE, f[2]>>
                      /\ (found # {} /\ ~legal) => res = <<FALSE, None>>

\* the king of cell (1,1) has flown over the opposing man of cell (4,4) and
\* landed on (5,5), short of the piece on (6,6)
C17_Witness ==
    /\ world["W_01"] = <<1, 1>>
    /\ world["B_01"] = <<4, 4>>
    /\ \E name \in DOMAIN world : world[name] = <<6, 6>>
    /\ robots["W_01"].is_king
    /\ last_captured = "B_01"
    /\ moving_robot_name = "W_01"
    /\ moving_robot_target = <<5, 5>>
    /\ board[5][5] = "W_01"
    /\ board[6][6] # None

\* C18: in DamasController/TableroDamas, while a multi-capture sequence is
\* in progress (jugando_captura), a click that moves nothing preserves the
\* selection of the capturing piece, and the only piece that moves is the
\* selected capturing piece.
C18_CaptureSequenceKeepsPiece ==
    [][jugando_captura =>
          IF estado_tablero' = estado_tablero
          THEN pieza_seleccionada' = pieza_seleccionada
          ELSE /\ pieza_seleccionada # NoneGrid
               /\ estado_tablero'[pieza_seleccionada] = NoPieza]_vars

\* the row a piece of jugador is promoted on
FilaPromocion(jugador) == IF jugador = 1 THEN LastRow ELSE 0

\* the step is a capture by realizar_movimiento that lands the selected
\* piece, a man, on its promotion row
CapturaCorona ==
    /\ controller = "damas_controller"
    /\ pieza_seleccionada # NoneGrid
    /\ estado_tablero[pieza_seleccionada] # NoPieza
    /\ ~estado_tablero[pieza_seleccionada].es_reina
    /\ estado_tablero'[pieza_seleccionada] = NoPieza
    /\ piezas_capturadas_j1' + piezas_capturadas_j2'
          > piezas_capturadas_j1 + piezas_capturadas_j2
    /\ \E col \in Coords :
          LET destino == <<FilaPromocion(estado_tablero[pieza_seleccionada].jugador),
                           col>>
          IN estado_tablero'[destino].nombre =
                estado_tablero[pieza_seleccionada].nombre

\* C19: in TableroDamas.realizar_movimiento a capture that lands a man on
\* its promotion row ends the capture chain: afterwards jugando_captura is
\* False and the turn has switched, whether or not the promoted piece has a
\* capture available from the landing cell.
C19_CrowningEndsChainDamas ==
    [][CapturaCorona => /\ ~jugando_captura'
                        /\ turno_actual' # turno_actual]_vars

\* a piece of jugador has an empty cell of the board to step to, in a
\* direction it may move in
PasoDisponible(et, jugador) ==
    \E pos \in Coords \X Coords :
        /\ et[pos] # NoPieza
        /\ et[pos].jugador = jugador
        /\ \E i \in DOMAIN direcciones(jugador, et[pos].es_reina) :
              LET d == direcciones(jugador, et[pos].es_reina)[i]
                  paso == <<pos[1] + d[1], pos[2] + d[2]>>
              IN /\ paso[1] \in Coords /\ paso[2] \in Coords
                 /\ et[paso] = NoPieza

PiezasDe(et, jugador) ==
    {pos \in Coords \X Coords : et[pos] # NoPieza /\ et[pos].jugador = jugador}

\* what verificar_fin_juego is to report on a board with pieces
FinEsperado(et, turno) ==
    IF PiezasDe(et, 1) = {} THEN <<TRUE, 2>>
    ELSE IF PiezasDe(et, 2) = {} THEN <<TRUE, 1>>
    ELSE IF ~(CapturaDisponible(et, turno) \/ PasoDisponible(et, turno))
    THEN <<TRUE, IF turno = 1 THEN 2 ELSE 1>>
    ELSE <<FALSE, 0>>

\* C20: on a board with pieces, verificar_fin_juego reports the game over,
\* with the opponent as winner, exactly when a team has no piece on the
\* board or the team to move has no legal move for any of its pieces, and
\* (False, None) otherwise; the main loop checks it before it accepts a
\* click, so that no click changes the game once it is over.
C20_FinDeJuego ==
    /\ [](OccupiedDamas # {} =>
            verificar_fin_juego(estado_tablero, turno_actual)
               = FinEsperado(estado_tablero, turno_actual))
    /\ [][(/\ controller = "damas_controller"
           /\ OccupiedDamas # {}
           /\ FinEsperado(estado_tablero, turno_actual)[1])
          => UNCHANGED damasVars]_vars

\* the turn has passed to a player that has pieces and cannot move any
C20_Witness ==
    /\ controller = "damas_controller"
    /\ numero_turno = 2
    /\ turno_actual = 2
    /\ PiezasDe(estado_tablero, 1) # {}
    /\ PiezasDe(estado_tablero, 2) # {}
    /\ ~CapturaDisponible(estado_tablero, 2)
    /\ ~PasoDisponible(estado_tablero, 2)

(***************************************************************************)
(* End of game, delivery and framing of messages, tile events, driver      *)
(***************************************************************************)

\* some alive piece of the team has a destination validate_move accepts
HasLegalMove(team) ==
    \E name \in DOMAIN robots :
        /\ robots[name].alive
        /\ robots[name].team = team
        /\ \E c \in CellsOf(board, name) : \E d \in Coords \X Coords :
              validate_move(board, robots, None, c, d)[1]

\* a team has no alive piece, or the team to move has no legal move
GameDecided ==
    \/ \E team \in {"WHITE", "BLACK"} :
          \A name \in DOMAIN robots :
              robots[name].team = team => ~robots[name].alive
    \/ ~HasLegalMove(current_team)

\* C21: in CheckersGame, once a turn switch has been finalized and a team has
\* no alive piece or the team to move has no legal move, the game is over: no
\* further selection is accepted and no move is committed.
C21_TerminalState ==
    [][(/\ controller = "supervisor_controller"
        /\ moves >= 1
        /\ ~waiting_for_robot
        /\ forced_piece = None
        /\ fault = None
        /\ GameDecided)
          => UNCHANGED <<selected_piece, board, waiting_for_robot>>]_vars

\* robot name goes from MOVING to IDLE, which is when it sends ARRIVED
Reaches(name) == state[name] = "MOVING" /\ state'[name] = "IDLE"

\* C22: MOVE, LOCK and ARRIVED are idempotent at the receiver under
\* at-least-once delivery: a piece that is alive sends ARRIVED only for the
\* pending move of the supervisor (a repeated MOVE makes no second ARRIVED),
\* and the supervisor finalizes the move of a piece only when the robot has
\* reached the target of that move.
C22_DuplicatesIdempotent ==
    [][/\ \A name \in Names :
             (Reaches(name) /\ robots[name].alive)
                => waiting_for_robot /\ moving_robot_name = name
       /\ Arrives =>
             /\ state[moving_robot_name] = "IDLE"
             /\ target[moving_robot_name] =
                   grid_to_world(moving_robot_target[1],
                                 moving_robot_target[2])]_vars

\* the driver state of robot name before it reads its packets
DriverOf(name) ==
    [state |-> state[name], target |-> target[name], locked |-> locked[name]]

\* what the step leaves of robot name is what its state branch alone makes
\* of the state it had: its packets changed nothing
PacketsIgnored(name) ==
    /\ target'[name] = target[name]
    /\ locked'[name] = locked[name]
    /\ state'[name] =
          driver_state_step(DriverOf(name),
                            driver_in_tolerance(DriverOf(name),
                                                sensed'[name])).state

\* msg is a MOVE, DIE or LOCK addressed to a robot other than name
AddressedElsewhere(msg, name) ==
    LET parts == split(msg)
    IN /\ Len(parts) >= 2
       /\ \E q \in (white_names \cup black_names) \ {name} :
             parts[1] = NameText(q)
       /\ \E c \in {"MOVE", "DIE", "LOCK"} : parts[2] = Word(c)

\* C23: a robot ignores every packet not addressed to it: a step in which
\* robot p reads only MOVE, DIE and LOCK packets addressed to other robots
\* among W_01..W_12, B_01..B_12 leaves the phase and target of p as they
\* are without the packets.
C23_OtherRobotsPacketsIgnored ==
    [][RobotsStepText =>
         \A p \in Names :
            (/\ robot_queue[p] # <<>>
             /\ \A i \in DOMAIN robot_queue[p] :
                   AddressedElsewhere(robot_queue[p][i], p))
               => PacketsIgnored(p)]_vars

\* the MOVE addressed to the robot on (5,5) has set that robot in motion and
\* left the robot on (1,1) idle with no target
C23_Witness ==
    /\ moves = 0
    /\ \E p, q \in Names :
          /\ p # q
          /\ state[q] # "IDLE"
          /\ target[q] = <<-3000, 1000>>
          /\ state[p] = "IDLE"
          /\ target[p] = <<0, 0>>
          /\ robot_queue[p] = <<>>

\* msg is empty, has no command token, names an unknown command, or is a
\* MOVE without its two coordinates
Malformed(msg) ==
    LET parts == split(msg)
    IN \/ Len(parts) < 2
       \/ \A c \in {"MOVE", "DIE", "LOCK", "ARRIVED"} : parts[2] # Word(c)
       \/ parts[2] = Word("MOVE") /\ Len(parts) < 4

\* C24: malformed packets are dropped silently by both receivers: a step in
\* which a receiver reads one raises no error, and a driver that reads only
\* malformed packets keeps its phase and target.
C24_MalformedDropped ==
    [][/\ RobotsStepText =>
            \A name \in Names :
               (/\ robot_queue[name] # <<>>
                /\ \A i \in DOMAIN robot_queue[name] :
                      Malformed(robot_queue[name][i]))
                  => fault' = None /\ PacketsIgnored(name)
       /\ (/\ ProcessRobotMessagesText
           /\ \E i \in DOMAIN supervisor_queue :
                 Malformed(supervisor_queue[i]))
             => fault' = None]_vars

\* handle_tile_click(x, y) for any tile
TileEvent(x, y) ==
    IF InRange(x, y) THEN HandleTileClick(x, y) ELSE HandleTileOutside(x, y)

\* C25: in CheckersGame a tile event outside the 8x8 grid or on a light cell
\* is rejected like an illegal move: no board or turn change, no MOVE, no
\* error, and selected_piece is cleared only if forced_piece is None.
C25_OffBoardRejected ==
    [][\A x \in TileCoords, y \in TileCoords :
          (/\ ~InRange(x, y) \/ (x + y) % 2 # 0
           /\ TileEvent(x, y))
             => /\ UNCHANGED <<board, robots, current_team, waiting_for_robot,
                               moving_robot_name, moving_robot_target,
                               forced_piece, robot_queue, fault>>
                /\ \/ selected_piece' = selected_piece
                   \/ forced_piece = None /\ selected_piece' = None]_vars

\* the ARRIVED packets of robot name in a queue of the supervisor
ArrivedCount(q, name) ==
    Cardinality({i \in DOMAIN q : q[i] = <<name, "ARRIVED">>})

\* robot name sends ARRIVED in this step: the supervisor's receiver holds
\* one more
SendsArrived(name) ==
    ArrivedCount(supervisor_queue', name) > ArrivedCount(supervisor_queue, name)

\* a MOVE or DIE addressed to robot name waits in its receiver
CommandWaiting(name) ==
    \E i \in DOMAIN robot_queue[name] :
        /\ robot_queue[name][i][1] = name
        /\ robot_queue[name][i][2] \in {"MOVE", "DIE"}

\* C26: a robot sends ARRIVED exactly in the step that takes it from MOVING to
\* IDLE, once, and it does so whenever it is MOVING within TOLERANCE_DIST of
\* its target; it leaves IDLE only on a MOVE addressed to it and becomes
\* MOVING only by way of ROTATING, so each MOVE received while IDLE is
\* answered by at most one ARRIVED and no ARRIVED comes without a MOVE.
C26_ArrivedOncePerMove ==
    [][\A name \in Names :
          /\ SendsArrived(name) <=>
                (state[name] = "MOVING" /\ state'[name] = "IDLE")
          /\ SendsArrived(name) =>
                ArrivedCount(supervisor_queue', name) =
                   ArrivedCount(supervisor_queue, name) + 1
          /\ (state[name] = "MOVING" /\ ~CommandWaiting(name)
                /\ sensed'[name][1] < TOLERANCE_DIST /\ RobotsStep)
                => SendsArrived(name)
          /\ (state[name] = "IDLE" /\ state'[name] # "IDLE")
                => CommandWaiting(name) /\ RobotsStep
          /\ (state[name] # "MOVING" /\ state'[name] = "MOVING")
                => state[name] = "ROTATING" \/ CommandWaiting(name)]_vars

\* the robot of the second move has arrived and its ARRIVED is in the
\* supervisor's queue, the only one
C26_Witness ==
    /\ moves >= 2
    /\ waiting_for_robot
    /\ state[moving_robot_name] = "IDLE"
    /\ sensed[moving_robot_name][1] < TOLERANCE_DIST
    /\ supervisor_queue = <<<<moving_robot_name, "ARRIVED">>>>

\* cell <<x, y>> is inside the grid and playable
Playable(c) == InRange(c[1], c[2]) /\ (c[1] + c[2]) % 2 = 0

\* C28: in every reachable state every piece stands on a playable cell
\* ((row + col) mod 2 = 0) of the 8x8 grid, and so does the destination of
\* every accepted move: the cells of board and estado_tablero that hold a
\* piece, the pending target of CheckersGame, the targets the robots were
\* sent to and the destinations TableroDamas offers.
C28_PiecesOnPlayableCells ==
    /\ controller = "supervisor_controller" =>
          /\ \A c \in Coords \X Coords :
                board[c[2]][c[1]] # None => Playable(c)
          /\ \A name \in DOMAIN robots :
                robots[name].alive => CellsOf(board, name) # {}
          /\ waiting_for_robot => Playable(moving_robot_target)
          /\ \A name \in Names :
                target[name] # <<0, 0>> =>
                   Playable(world_to_grid(target[name][1], target[name][2]))
    /\ controller = "damas_controller" =>
          /\ \A pos \in DOMAIN estado_tablero :
                estado_tablero[pos] # NoPieza => Playable(pos)
          /\ \A d \in destinos_validos : Playable(d)
          /\ Cardinality(OccupiedDamas) + piezas_capturadas_j1
                + piezas_capturadas_j2 = Cardinality(DOMAIN world)

\* the last MOVE or DIE addressed to robot name in its receiver
LastCommand(name) ==
    LET q == robot_queue[name]
        i == CHOOSE k \in DOMAIN q :
                /\ q[k][1] = name /\ q[k][2] \in {"MOVE", "DIE"}
                /\ \A j \in DOMAIN q :
                      (q[j][1] = name /\ q[j][2] \in {"MOVE", "DIE"}) => j <= k
    IN q[i]

\* the driver state of robot name once it has stored the target of its last
\* command and become ROTATING
Commanded(name) ==
    [state |-> "ROTATING",
     target |-> <<LastCommand(name)[3], LastCommand(name)[4]>>,
     locked |-> locked[name]]

\* C29: a robot in IDLE has both motors at zero velocity; in the step in
\* which it reads a MOVE or DIE addressed to it, it stores the coordinates of
\* the message as its target and is ROTATING: that step runs the ROTATING
\* branch on the new target (it turns, or is MOVING if it already faces the
\* target).
C29_IdleAtRestUntilMove ==
    /\ [](\A name \in Names :
             state[name] = "IDLE" =>
                left_velocity[name] = 0 /\ right_velocity[name] = 0)
    /\ [][\A name \in Names :
             (CommandWaiting(name) /\ RobotsStep) =>
                /\ target'[name] = Commanded(name).target
                /\ state'[name] =
                      driver_state_step(Commanded(name),
                          driver_in_tolerance(Commanded(name),
                                              sensed'[name])).state
                /\ state'[name] \in {"ROTATING", "MOVING"}
                /\ <<left_velocity'[name], right_velocity'[name]>> =
                      driver_velocity(Commanded(name), sensed'[name])]_vars

\* a robot that was idle has read its MOVE and turns towards the target while
\* every other robot is idle
C29_Witness ==
    /\ waiting_for_robot
    /\ moves = 1
    /\ state[moving_robot_name] = "ROTATING"
    /\ target[moving_robot_name] =
          grid_to_world(moving_robot_target[1], moving_robot_target[2])
    /\ left_velocity[moving_robot_name] < 0
    /\ right_velocity[moving_robot_name] > 0
    /\ \A name \in Names \ {moving_robot_name} :
          state[name] = "IDLE" /\ left_velocity[name] = 0

\* C30: in MOVING the arrival check comes before any speed computation: in a
\* step in which a MOVING robot reads a distance below TOLERANCE_DIST it sets
\* both motors to zero, sends ARRIVED and becomes IDLE, whatever its heading.
C30_ArrivalCheckFirst ==
    [][\A name \in Names :
          (/\ state[name] = "MOVING"
           /\ ~CommandWaiting(name)
           /\ sensed'[name][1] < TOLERANCE_DIST
           /\ RobotsStep)
             => /\ left_velocity'[name] = 0
                /\ right_velocity'[name] = 0
                /\ state'[name] = "IDLE"
                /\ SendsArrived(name)]_vars

\* a robot that was driving at speed has read a distance inside the band and
\* stands idle with its ARRIVED sent
C30_Witness ==
    /\ moves = 1
    /\ \E name \in Names :
          /\ state[name] = "IDLE"
          /\ sensed[name][1] > 0
          /\ sensed[name][1] < TOLERANCE_DIST
          /\ left_velocity[name] = 0
          /\ right_velocity[name] = 0
          /\ ArrivedCount(supervisor_queue, name) = 1

(***************************************************************************)
(* The driver's control law                                                *)
(***************************************************************************)

\* the phase in which robot name enters the state branch of this step
PhaseAfterMessages(name) ==
    IF CommandWaiting(name) THEN "ROTATING" ELSE state[name]

\* values handed to clamp, on both sides of the dead zone 0.01, of the
\* floor 0.1 and of the cap 2.0
ClampInputs == {-30000, -20000, -1000, -998, -100, -98, -2, 0, 2, 98, 100,
                998, 1000, 1500, 20000, 20002}

\* C31: in ROTATING, a bearing error below TOLERANCE_ANGLE in magnitude stops
\* both motors and makes the robot MOVING; otherwise the robot turns in
\* place, left = -r and right = r with r = clamp(error * KP_ROT, 0.1, 2.0).
\* clamp returns 0 for |value| < 0.01 and otherwise a value of the sign of
\* its input whose magnitude is the input's held within [0.1, 2.0].
C31_RotatingLaw ==
    /\ [](\A v \in ClampInputs :
             LET c == clamp(v, 1000, 20000)
             IN /\ Abs(v) < 100 => c = 0
                /\ Abs(v) >= 100 =>
                      /\ (v > 0) = (c > 0)
                      /\ Abs(c) >= 1000 /\ Abs(c) <= 20000
                      /\ (Abs(v) >= 1000 /\ Abs(v) <= 20000) => c = v
                      /\ Abs(v) < 1000 => Abs(c) = 1000
                      /\ Abs(v) > 20000 => Abs(c) = 20000)
    /\ [][\A name \in Names :
             (PhaseAfterMessages(name) = "ROTATING" /\ RobotsStepFine) =>
                LET e == sensed'[name][2]
                    r == right_velocity'[name]
                IN IF Abs(e) < TOLERANCE_ANGLE
                   THEN /\ left_velocity'[name] = 0
                        /\ r = 0
                        /\ state'[name] = "MOVING"
                   ELSE /\ state'[name] = "ROTATING"
                        /\ left_velocity'[name] = -r
                        /\ (e > 0) = (r > 0)
                        /\ Abs(r) >= 1000 /\ Abs(r) <= 20000
                        /\ (Abs(e) * 3 >= 2000 /\ Abs(e) * 3 <= 40000)
                              => 2 * r = 3 * e]_vars

\* a robot turns at the floor speed 0.1 on a bearing error of 0.06, whose
\* proportional speed 0.09 is below the floor
C31_Witness ==
    \E name \in Names :
        /\ state[name] = "ROTATING"
        /\ sensed[name][2] = 600
        /\ right_velocity[name] = 1000
        /\ left_velocity[name] = -1000

\* robot name runs the MOVING branch in this step and has not arrived; its
\* distance is sensed'[name][1]
Drives(name) ==
    /\ state[name] = "MOVING"
    /\ ~CommandWaiting(name)
    /\ sensed'[name][1] >= TOLERANCE_DIST
    /\ RobotsStepFine

\* the base speed of a step: left = base - correction, right = base +
\* correction, so twice the base speed is left + right
TwiceBase(left, right, name) == left[name] + right[name]

\* the wheel speeds set in this step give the base speed of the distance
\* read in it
BaseSpeedLaw(name) ==
    LET d == sensed'[name][1]
        twice == TwiceBase(left_velocity', right_velocity', name)
    IN /\ d > 4000 => twice = 2 * 60000
       /\ d <= 4000 =>
             /\ twice >= 2 * 5000
             /\ twice <= 2 * 20000
             /\ twice < 2 * 60000
             /\ d * 5 < 5000 => twice = 2 * 5000
             /\ d * 5 > 20000 => twice = 2 * 20000
             /\ (d * 5 >= 5000 /\ d * 5 <= 20000) => twice = 2 * (d * 5)

\* C32: in MOVING at a distance d >= TOLERANCE_DIST the base speed is the
\* cruise speed 6.0 when d > 0.40 and min(max(0.5, 5 * d), 2.0) otherwise:
\* within the outer radius it is at least the approach speed 0.5 and at most
\* 2.0, below the cruise speed. No step in which a robot drives breaks the
\* law.
C32_BaseSpeed ==
    [][\A name \in Names : BaseSpeedLaw(name) \/ ~Drives(name)]_vars

\* a robot 0.08 from its target, where the ramp 5 * d = 0.4 is below the
\* approach speed, drives at 0.5 with both wheels
C32_Witness ==
    \E name \in Names :
        /\ state[name] = "MOVING"
        /\ sensed[name] = <<800, 0>>
        /\ left_velocity[name] = 5000
        /\ right_velocity[name] = 5000

\* C33: the base speed of a MOVING robot makes no jump at the outer radius
\* 0.40: between two consecutive steps of the MOVING branch whose distances
\* differ by at most 0.0002 it changes by no more than the slope 5 of the
\* ramp times the change of the distance.
C33_NoJumpAtOuterRadius ==
    [][\A name \in Names :
          (/\ sensed[name][1] >= TOLERANCE_DIST
           /\ Abs(sensed'[name][1] - sensed[name][1]) <= 2
           /\ Drives(name)) =>
             Abs(TwiceBase(left_velocity', right_velocity', name)
                   - TwiceBase(left_velocity, right_velocity, name))
                <= 2 * 5 * Abs(sensed'[name][1] - sensed[name][1])]_vars

\* the wheel speeds set in this step are the base speed minus and plus the
\* correction of the heading error read in it
HeadingLaw(name) ==
    LET d == sensed'[name][1]
        e == sensed'[name][2]
    IN /\ d < 2000 =>
             /\ e = 0
             /\ left_velocity'[name] = right_velocity'[name]
       /\ left_velocity'[name] = base_speed(d) - 3 * e
       /\ right_velocity'[name] = base_speed(d) + 3 * e

\* C34: in MOVING the heading is corrected only at a distance of 0.20 or
\* more; nearer to the target the heading error counts as zero and both
\* wheels get the same speed. In every case left = base - correction and
\* right = base + correction, where correction = heading error * KP_MOVE.
C34_HeadingCorrection ==
    [][\A name \in Names : HeadingLaw(name) \/ ~Drives(name)]_vars

\* a robot 0.30 from its target and 0.5 rad off course drives with its right
\* wheel only: base 1.5, correction 1.5
C34_Witness ==
    \E name \in Names :
        /\ state[name] = "MOVING"
        /\ sensed[name] = <<3000, 5000>>
        /\ left_velocity[name] = 0
        /\ right_velocity[name] = 30000

(***************************************************************************)
(* TableroDamas: requests that are turned down                             *)
(***************************************************************************)

\* the cell holds no piece, or a piece of the player who is not to move
NoMueve(fila, col) ==
    \/ ~InTablero(estado_tablero, <<fila, col>>)
    \/ estado_tablero[<<fila, col>>].jugador # turno_actual

\* a step that is a direct call of realizar_movimiento which returns False,
\* as it does for the cells that validar_movimiento does not accept
Rechazado ==
    /\ retorno' = "False"
    /\ \E origen \in CeldasPedidas, destino \in CeldasPedidas :
          RealizarMovimiento(origen, destino)

\* C35: obtener_movimientos_validos answers the empty list for a cell without
\* a piece and for a piece that is not of turno_actual, and a call of
\* realizar_movimiento with cells that are not a legal move returns False and
\* leaves the board, the turn, the selection, jugando_captura and both
\* capture counters as they were.
C35_RejectedByPolicy ==
    /\ [](\A fila \in TileCoords, col \in TileCoords :
            NoMueve(fila, col) =>
               obtener_movimientos_validos(estado_tablero, turno_actual,
                                           fila, col) = <<>>)
    /\ [][\/ UNCHANGED <<estado_tablero, turno_actual, pieza_seleccionada,
                          jugando_captura, piezas_capturadas_j1,
                          piezas_capturadas_j2>>
          \/ ~Rechazado]_vars

\* a request was turned down in the middle of a chain of captures, with the
\* capturing piece still selected
C35_Witness ==
    /\ retorno = "False"
    /\ jugando_captura
    /\ pieza_seleccionada # NoneGrid
    /\ piezas_capturadas_j2 > 0

(***************************************************************************)
(* CheckersGame: selection, forced piece and turn                          *)
(***************************************************************************)

\* C36: whenever selected_piece is set and the game is not waiting for a
\* robot, selected_grid is the cell of the board on which selected_piece
\* stands, also when the selection was restored by the ARRIVED of a capture
\* that goes on.
C36_SelectedGridIsCell ==
    (selected_piece # None /\ ~waiting_for_robot) =>
        /\ selected_grid # NoneGrid
        /\ board[selected_grid[2]][selected_grid[1]] = selected_piece

\* the piece is alive and belongs to the team that is to move
OfTeamToMove(name) ==
    /\ robots[name].alive
    /\ robots[name].team = current_team

\* C37: a selected piece is an alive piece of current_team, and so is a
\* forced piece; every move that is committed is a move of a piece of the
\* team that is to move.
C37_SelectionOfTeamToMove ==
    /\ [](/\ selected_piece # None => OfTeamToMove(selected_piece)
          /\ forced_piece # None => OfTeamToMove(forced_piece))
    /\ [][Commits =>
             /\ moving_robot_name' # None
             /\ robots[moving_robot_name'].alive
             /\ robots[moving_robot_name'].team = current_team]_vars

\* WHITE has finished a chain of two moves; BLACK is to move and has selected
\* one of its pieces
C37_Witness ==
    /\ current_team = "BLACK"
    /\ selected_piece # None
    /\ robots[selected_piece].team = "BLACK"
    /\ moves = 2

\* the cells of the board on which a robot stands
Occupied == {c \in Coords \X Coords : board[c[2]][c[1]] # None}

\* C38: while forced_piece is set, validate_move accepts no move without a
\* victim, neither the single step of a man nor the slide of a king, and every
\* move that is committed is a capture made by forced_piece.
C38_ForcedMovesAreCaptures ==
    /\ [](forced_piece # None =>
            \A origin \in Occupied, destination \in Coords \X Coords :
               validate_move(board, robots, forced_piece,
                             origin, destination)[1]
                  => validate_move(board, robots, forced_piece,
                                   origin, destination)[2] # None)
    /\ [][(forced_piece # None /\ Commits) =>
             /\ moving_robot_name' = forced_piece
             /\ last_captured' # None
             /\ robots[last_captured'].alive
             /\ ~robots'[last_captured'].alive]_vars

\* W_01 has made two moves in a row and each of them took a BLACK piece: the
\* second one was committed while W_01 was the forced piece
C38_Witness ==
    /\ moves = 2
    /\ waiting_for_robot
    /\ moving_robot_name = "W_01"
    /\ last_captured # None
    /\ Cardinality({name \in Names : ~robots[name].alive
                                       /\ robots[name].team = "BLACK"}) = 2

\* the game as process_robot_messages finds it
GameNow ==
    [robots |-> robots, current_team |-> current_team,
     selected_piece |-> selected_piece,
     waiting_for_robot |-> waiting_for_robot,
     moving_robot_name |-> moving_robot_name,
     moving_robot_target |-> moving_robot_target,
     forced_piece |-> forced_piece, sent |-> <<>>]

\* the packets a robot sends or may be sent back
RobotPackets == {<<name, command>> : name \in Names,
                                     command \in {"ARRIVED", "LOCK"}}

\* C39: current_team changes only in a step of process_robot_messages that
\* reads the ARRIVED of the robot of the pending move while forced_piece is
\* None, and such a step gives the turn to the other team. A step that reads
\* only packets of other robots leaves the board, the turn, the selection and
\* the pending move unchanged, and so would any packet read while no move is
\* pending.
C39_TurnChangesOnMatchingArrived ==
    /\ [](~waiting_for_robot =>
            \A parts \in RobotPackets :
               ProcessOneMessage(GameNow, parts) = GameNow)
    /\ [][/\ current_team' # current_team =>
                /\ forced_piece = None
                /\ waiting_for_robot
                /\ MatchingArrived
                /\ ProcessRobotMessages
          /\ (forced_piece = None /\ Arrives) =>
                current_team' = (IF current_team = "WHITE" THEN "BLACK"
                                                          ELSE "WHITE")
          /\ (waiting_for_robot /\ ~MatchingArrived /\ ProcessRobotMessages) =>
                UNCHANGED pendingVars]_vars

\* the ARRIVED of W_01 ended the first turn, and a second copy of it waits in
\* the supervisor's queue while the move of B_01 is pending
C39_Witness ==
    /\ current_team = "BLACK"
    /\ moves = 2
    /\ waiting_for_robot
    /\ moving_robot_name = "B_01"
    /\ supervisor_queue = <<<<"W_01", "ARRIVED">>>>

(***************************************************************************)
(* Progress of a committed move                                            *)
(***************************************************************************)

\* the pending move is finalized: the game waits no longer and either the
\* turn of team is over or the forced piece is selected again
Finalized(team) ==
    /\ ~waiting_for_robot
    /\ \/ /\ forced_piece = None
          /\ current_team # team
       \/ /\ forced_piece # None
          /\ selected_piece = forced_piece
          /\ current_team = team

\* C40: when the simulation keeps stepping, the robots end up aligned with
\* and within TOLERANCE_DIST of their targets and the supervisor keeps
\* polling, every committed move is finalized in the end: waiting_for_robot
\* becomes False and the turn goes to the other team or the forced piece is
\* selected again.
C40_CommittedMoveFinalized ==
    \A team \in {"WHITE", "BLACK"} :
        (waiting_for_robot /\ current_team = team) ~> Finalized(team)

\* three moves have been committed and finalized, the last one by WHITE
C40_Witness ==
    /\ controller = "supervisor_controller"
    /\ moves = 3
    /\ ~waiting_for_robot
    /\ moving_robot_name = None
    /\ current_team = "BLACK"
    /\ supervisor_queue = <<>>

====
